---- MODULE Spec2Model ----
(***************************************************************************)
(* State-machine model of khushal1198/hello_grpc's storage core:           *)
(*   - PostgresLockManager / InMemoryLockManager                           *)
(*       (src/khushal_hello_grpc/src/common/storage/lock_manager.py)       *)
(*   - DatabaseStore and its retry wrapper                                 *)
(*       (src/khushal_hello_grpc/src/common/storage/database.py)           *)
(* The PostgreSQL server (sessions, session-scoped advisory locks) and the *)
(* connection pool are the environment of the lock manager.                *)
(***************************************************************************)
EXTENDS Integers, Sequences, FiniteSets, TLC

(***************************************************************************)
(* Bounds of the model.                                                    *)
(***************************************************************************)
MaxConns == 2
MaxCalls == 5
MaxLosses == 1
MaxThreadCalls == 3
MaxHbCalls == 3
MaxWorkers == 2
MaxClock == 90
MaxImCalls == 4
MaxLiveCalls == 4
MaxStoreCalls == 2
MaxRows == 3
MaxTs == 3
MaxLimit == 2
MaxScans == 1
MaxWindow == 2
MaxCleanups == 2
MaxUpdates == 2
MaxUpdateCalls == 2
MaxGrpcCalls == 4

\* Clock ticks in a millisecond, and the tick at which the first row was
\* created.
TicksPerMs == 2
TsFirst == 72

\* Width of a lock key in the model (64 in the program).
KeyBits == 4
MaxCreateCalls == 3
MaxMs == 40
MaxIterations == 4

\* Program constants.
HeartbeatInterval == 30
max_attempts == 3
batch_max == 10000
batch_size == 100

(***************************************************************************)
(* Fixed universes.                                                        *)
(***************************************************************************)
Managers == {"A", "B"}
Names == {"n1", "n2"}
PgThreads == {"a1", "a2", "b1"}
Workers == 1..MaxWorkers
ImThreads == {"i1", "i2"}
None == 0

manager_of(t) == IF t \in {"a1", "a2"} THEN "A" ELSE "B"

(***************************************************************************)
(* _string_to_lock_key: the first 16 hex digits of the md5 of the name,    *)
(* read as an unsigned integer and wrapped to a signed one.  The width is  *)
(* scaled from 64 to KeyBits bits; md5_prefix tabulates the digest prefix. *)
(***************************************************************************)
md5_prefix(name) == IF name = "n1" THEN 3 ELSE 12

\* The unsigned value returned as it is, never wrapped.
to_signed_unwrapped(lock_key_unsigned) == lock_key_unsigned

\* if lock_key_unsigned >= 2**63: return lock_key_unsigned - 2**64
\* return lock_key_unsigned
to_signed(lock_key_unsigned) ==
  IF lock_key_unsigned >= 2 ^ (KeyBits - 1)
    THEN lock_key_unsigned - 2 ^ KeyBits
    ELSE lock_key_unsigned

string_to_lock_key(name) == to_signed(md5_prefix(name))

\* The values int(hash_value[:16], 16) takes over all lock names.
Unsigned == 0..(2 ^ KeyBits - 1)

Keys == {string_to_lock_key(n) : n \in Names}

VARIABLES
  connection,          \* [Managers -> 0..MaxConns]   PostgresLockManager._connection (0: None)
  acquired_lock_keys,  \* [Managers -> SUBSET Keys]   PostgresLockManager._acquired_lock_keys
  opened,              \* [Managers -> 0..MaxConns]   connections the pool has handed to the manager
  sess,                \* [Managers -> [1..MaxConns -> state]]  each handed-out connection
  pg_locks,            \* [Keys -> [owner, sid, cnt]] the server's advisory-lock table
  thr,                 \* [PgThreads -> [pc, lock_name, connection, attempt, joined]]  each calling
                       \*   thread: its position and the locals of the call in progress
  calls_left,          \* calls the callers may still start
  losses_left,         \* sessions the environment may still end
  held,                \* [Managers -> SUBSET Names]  names whose acquire returned and whose
                       \*   release has not returned since (the caller's view)
  clock,               \* datetime.now(timezone.utc), in seconds
  last_heartbeat_ts,   \* [Managers -> Nat]           PostgresLockManager._last_heartbeat_ts
  heartbeat_daemon,    \* [Managers -> BOOLEAN]       whether _heartbeat_daemon is a worker object
  stop_event,          \* [Managers -> BOOLEAN]       PostgresLockManagerHeartbeatWorker._stop_event
  worker_thread,       \* [Managers -> 0..MaxWorkers] ..._thread (0: None), an index into workers
  workers,             \* [Managers -> [Workers -> [pc, wake]]]  the threads start() has created
  hb_log,              \* [Managers -> Seq(record)]   the queries heartbeat() has sent
  hb_called,           \* [Managers -> BOOLEAN]       heartbeat() has been called with a key
                       \*   tracked and a connection stored
  hb_raised,           \* [Managers -> BOOLEAN]       a heartbeat() call raised to its caller
  worker_sent,         \* [Managers -> BOOLEAN]       a worker thread has sent a query
  locks,               \* SUBSET Names                InMemoryLockManager.locks
  im,                  \* [ImThreads -> [pc, lock_name]]  the threads sharing that manager
  im_holding,          \* [ImThreads -> SUBSET Names] names a thread acquired and has not
                       \*   itself released since (the caller's view)
  st,                  \* the thread calling the DatabaseStore: [pc, op, arg, attempts, conn,
                       \*   raised_in, outer, rows], the retry wrappers' and the operation's
                       \*   locals, and [tries, before, executions, sleeps], what the call
                       \*   has done so far
  pool_open,           \* connections the store's pool handed out that are not closed
  borrowed,            \* how many connections the store's pool has handed out
  closes,              \* [1..borrowed -> Nat]  close() calls each of them received
  table,               \* SUBSET Rows  the committed rows of the store's table
  tx,                  \* SUBSET Rows  the rows the open connection's transaction sees
  outcome,             \* how the store's last call ended, once it has ended
  client,              \* GrpcClient: [channel, stub, connected]
  server_up,           \* whether the gRPC server answers
  grpc_last,           \* the GrpcClient call that returned last, and what it returned
  exec_last,           \* the StatementExecutor call that ended last, and how
  row_ts,              \* [Rows -> TsValues]  the created_ts of each row, in ticks
  pager,               \* a caller's scan with get_all_raw_paginate
  gar,                 \* a call of get_all_raw, between its queries
  last_updated_ts,     \* [Rows -> Nat]  the last_updated_ts column of each row
  update_count,        \* [Rows -> Nat]  the updates each row has had
  uu,                  \* the caller of update_user: [pc, user, ts]
  cl,                  \* the caller of cleanup_old_requests
  lock_key,            \* [Managers -> the digest prefix hashed last and its key]
  users,               \* the users table: records [id, username, email]
  cu,                  \* [CuThreads -> a caller of create_user]
  b36                  \* a call of to_base36, inside its loop

mgrVars == <<connection, acquired_lock_keys>>
srvVars == <<opened, sess, pg_locks>>
lockVars == <<mgrVars, srvVars, thr, calls_left, losses_left, held>>

hbVars == <<clock, last_heartbeat_ts, heartbeat_daemon, stop_event, worker_thread,
            workers, hb_log, hb_called, hb_raised, worker_sent>>

imVars == <<locks, im, im_holding>>

connVars == <<pool_open, borrowed, closes>>
dataVars == <<table, tx>>
storeVars == <<st, connVars, dataVars, outcome>>

grpcVars == <<client, server_up, grpc_last>>

pageVars == <<row_ts, pager, gar>>
updVars == <<last_updated_ts, update_count, uu>>
execVars == <<exec_last, pageVars, updVars>>

\* The components other than the lock managers and the store.
\* The stores of the services, built on DatabaseStore.
keyVars == <<lock_key>>
userVars == <<users, cu>>
b36Vars == <<b36>>
svcVars == <<keyVars, userVars, b36Vars>>
appVars == <<cl, svcVars>>

restVars == <<grpcVars, execVars, appVars>>

\* The PostgreSQL side as the in-memory calls leave it.
pgVars == <<mgrVars, srvVars, thr, losses_left, held>>

vars == <<lockVars, hbVars, imVars, storeVars, restVars>>

\* What the lock calls leave alone.
nonLockVars == <<hbVars, imVars, storeVars, restVars>>

\* A thread outside any call: the locals of a finished call are gone.
Idle == [pc |-> "idle", lock_name |-> "-", connection |-> None, attempt |-> 1, joined |-> None]

\* A worker thread that start() has not created yet.
Unstarted == [pc |-> "unstarted", wake |-> 0]

(***************************************************************************)
(* The PostgreSQL server: session-scoped, re-entrant advisory locks.       *)
(***************************************************************************)
Free == [owner |-> "none", sid |-> 0, cnt |-> 0]

SessionOpen(m, c) == c # None /\ sess[m][c] = "open"

HeldBy(k, m, c) == pg_locks[k].cnt > 0 /\ pg_locks[k].owner = m /\ pg_locks[k].sid = c

\* pg_advisory_lock / pg_try_advisory_lock grant a key that is free or already
\* held by the asking session (requests of one session stack).
Grantable(k, m, c) == pg_locks[k].cnt = 0 \/ HeldBy(k, m, c)

Granted(k, m, c) ==
  [pg_locks EXCEPT ![k] = [owner |-> m, sid |-> c, cnt |-> pg_locks[k].cnt + 1]]

\* pg_advisory_unlock undoes one request of the asking session, if it has any.
Unlocked(k, m, c) ==
  IF ~HeldBy(k, m, c) THEN pg_locks
  ELSE IF pg_locks[k].cnt = 1 THEN [pg_locks EXCEPT ![k] = Free]
  ELSE [pg_locks EXCEPT ![k].cnt = @ - 1]

\* The end of a session releases every advisory lock it holds.
SessionEnded(m, c) ==
  [k \in Keys |-> IF HeldBy(k, m, c) THEN Free ELSE pg_locks[k]]

(***************************************************************************)
(* PostgresLockManager._get_connection                                     *)
(***************************************************************************)
\* A variant that never reuses the tracked connection.
NeedsNewConnection_always(conn) == TRUE

NeedsNewConnection(conn) == conn = None

\* The connection _get_connection returns: the tracked one, or the pool's next.
get_connection(m) ==
  IF NeedsNewConnection(connection[m]) THEN opened[m] + 1 ELSE connection[m]

\* _get_connection_for_lock, under _thread_lock: track the key, reuse or create
\* the connection (the caller keeps get_connection(m) as its local).
get_connection_for_lock(m, k) ==
  LET fresh == NeedsNewConnection(connection[m])
      c == get_connection(m)
  IN  /\ fresh => opened[m] < MaxConns
      /\ acquired_lock_keys' = [acquired_lock_keys EXCEPT ![m] = @ \cup {k}]
      /\ connection' = [connection EXCEPT ![m] = c]
      /\ opened' = IF fresh THEN [opened EXCEPT ![m] = c] ELSE opened
      /\ sess' = IF fresh THEN [sess EXCEPT ![m][c] = "open"] ELSE sess

\* _get_connection_for_lock when ConnectionPool.get_connection raises: the key
\* is already in the set, no connection is stored, the exception propagates.
get_connection_for_lock_raises(m, k) ==
  /\ NeedsNewConnection(connection[m])
  /\ acquired_lock_keys' = [acquired_lock_keys EXCEPT ![m] = @ \cup {k}]
  /\ UNCHANGED <<connection, opened, sess>>

(***************************************************************************)
(* PostgresLockManager._release_connection_for_lock                        *)
(***************************************************************************)
ShouldClose(keys, conn) == keys = {} /\ conn # None

release_connection_for_lock(m, k) ==
  LET keys == acquired_lock_keys[m] \ {k}
      c == connection[m]
  IN  /\ acquired_lock_keys' = [acquired_lock_keys EXCEPT ![m] = keys]
      /\ IF ShouldClose(keys, c)
           THEN /\ sess' = [sess EXCEPT ![m][c] = "closed"]
                /\ pg_locks' = SessionEnded(m, c)
                /\ connection' = [connection EXCEPT ![m] = None]
           ELSE UNCHANGED <<sess, pg_locks, connection>>
      /\ UNCHANGED opened

(***************************************************************************)
(* PostgresLockManager.acquire                                             *)
(***************************************************************************)
acquire(t, n) ==
  LET m == manager_of(t)
  IN  /\ thr[t].pc = "idle" /\ calls_left > 0
      /\ get_connection_for_lock(m, string_to_lock_key(n))
      /\ thr' = [thr EXCEPT ![t] = [Idle EXCEPT !.pc = "acquire_execute", !.lock_name = n,
                                                !.connection = get_connection(m)]]
      /\ calls_left' = calls_left - 1
      /\ UNCHANGED <<pg_locks, losses_left, held>>
      /\ UNCHANGED nonLockVars

\* cursor.execute("SELECT pg_advisory_lock(..)") returns once the server grants the key.
acquire_execute(t) ==
  LET m == manager_of(t)
      k == string_to_lock_key(thr[t].lock_name)
      c == thr[t].connection
  IN  /\ thr[t].pc = "acquire_execute"
      /\ SessionOpen(m, c)
      /\ Grantable(k, m, c)
      /\ pg_locks' = Granted(k, m, c)
      /\ held' = [held EXCEPT ![m] = @ \cup {thr[t].lock_name}]
      /\ thr' = [thr EXCEPT ![t] = Idle]
      /\ UNCHANGED <<mgrVars, opened, sess, calls_left, losses_left>>
      /\ UNCHANGED nonLockVars

(***************************************************************************)
(* PostgresLockManager.acquire_non_blocking                                *)
(***************************************************************************)
acquire_non_blocking(t, n) ==
  LET m == manager_of(t)
  IN  /\ thr[t].pc = "idle" /\ calls_left > 0
      /\ get_connection_for_lock(m, string_to_lock_key(n))
      /\ thr' = [thr EXCEPT ![t] = [Idle EXCEPT !.pc = "try_execute", !.lock_name = n,
                                                !.connection = get_connection(m)]]
      /\ calls_left' = calls_left - 1
      /\ UNCHANGED <<pg_locks, losses_left, held>>
      /\ UNCHANGED nonLockVars

\* lock_acquired = result.get("pg_try_advisory_lock", False) if result else False
lock_acquired(k, m, c) == Grantable(k, m, c)

\* cursor.execute("SELECT pg_try_advisory_lock(..)") and the branch on its result:
\* return True, or go on to untrack the key.
try_execute(t) ==
  LET m == manager_of(t)
      k == string_to_lock_key(thr[t].lock_name)
      c == thr[t].connection
  IN  /\ thr[t].pc = "try_execute"
      /\ SessionOpen(m, c)
      /\ pg_locks' = IF Grantable(k, m, c) THEN Granted(k, m, c) ELSE pg_locks
      /\ IF lock_acquired(k, m, c)
           THEN /\ held' = [held EXCEPT ![m] = @ \cup {thr[t].lock_name}]
                /\ thr' = [thr EXCEPT ![t] = Idle]
           ELSE /\ thr' = [thr EXCEPT ![t].pc = "not_acquired"]
                /\ UNCHANGED held
      /\ UNCHANGED <<mgrVars, opened, sess, calls_left, losses_left>>
      /\ UNCHANGED nonLockVars

\* The else branch: self._release_connection_for_lock(lock_key); return False.
not_acquired(t) ==
  /\ thr[t].pc = "not_acquired"
  /\ release_connection_for_lock(manager_of(t), string_to_lock_key(thr[t].lock_name))
  /\ thr' = [thr EXCEPT ![t] = Idle]
  /\ UNCHANGED <<calls_left, losses_left, held>>
  /\ UNCHANGED nonLockVars

\* The except branch for "connection already closed": retry on attempt 1,
\* raise on attempt 2.
RetryAllowed(n) == n = 1

try_execute_closed(t) ==
  LET m == manager_of(t)
      c == thr[t].connection
  IN  /\ thr[t].pc = "try_execute"
      /\ ~SessionOpen(m, c)
      /\ thr' = IF RetryAllowed(thr[t].attempt)
                  THEN [thr EXCEPT ![t].attempt = @ + 1, ![t].pc = "retry_release"]
                  ELSE [thr EXCEPT ![t] = Idle]
      /\ UNCHANGED <<mgrVars, srvVars, calls_left, losses_left, held>>
      /\ UNCHANGED nonLockVars

\* The except branch for any other error of a lost connection: raise e.
try_execute_other_error(t) ==
  LET m == manager_of(t)
      c == thr[t].connection
  IN  /\ thr[t].pc = "try_execute"
      /\ c # None /\ sess[m][c] = "dead"
      /\ thr' = [thr EXCEPT ![t] = Idle]
      /\ UNCHANGED <<mgrVars, srvVars, calls_left, losses_left, held>>
      /\ UNCHANGED nonLockVars

\* self._release_connection_for_lock(lock_key); continue
retry_release(t) ==
  /\ thr[t].pc = "retry_release"
  /\ release_connection_for_lock(manager_of(t), string_to_lock_key(thr[t].lock_name))
  /\ thr' = [thr EXCEPT ![t].pc = "retry_get"]
  /\ UNCHANGED <<calls_left, losses_left, held>>
  /\ UNCHANGED nonLockVars

\* Top of the loop on the second attempt:
\* connection = self._get_connection_for_lock(lock_key)
retry_get(t) ==
  LET m == manager_of(t)
  IN  /\ thr[t].pc = "retry_get"
      /\ get_connection_for_lock(m, string_to_lock_key(thr[t].lock_name))
      /\ thr' = [thr EXCEPT ![t].pc = "try_execute", ![t].connection = get_connection(m)]
      /\ UNCHANGED <<pg_locks, calls_left, losses_left, held>>
      /\ UNCHANGED nonLockVars

(***************************************************************************)
(* PostgresLockManager.release                                             *)
(***************************************************************************)
release(t, n) ==
  LET m == manager_of(t)
  IN  /\ thr[t].pc = "idle" /\ calls_left > 0
      /\ get_connection_for_lock(m, string_to_lock_key(n))
      /\ thr' = [thr EXCEPT ![t] = [Idle EXCEPT !.pc = "release_execute", !.lock_name = n,
                                                !.connection = get_connection(m)]]
      /\ calls_left' = calls_left - 1
      /\ UNCHANGED <<pg_locks, losses_left, held>>
      /\ UNCHANGED nonLockVars

\* cursor.execute("SELECT pg_advisory_unlock(..)")
release_execute(t) ==
  LET m == manager_of(t)
      k == string_to_lock_key(thr[t].lock_name)
      c == thr[t].connection
  IN  /\ thr[t].pc = "release_execute"
      /\ SessionOpen(m, c)
      /\ pg_locks' = Unlocked(k, m, c)
      /\ thr' = [thr EXCEPT ![t].pc = "release_untrack"]
      /\ UNCHANGED <<mgrVars, opened, sess, calls_left, losses_left, held>>
      /\ UNCHANGED nonLockVars

\* self._release_connection_for_lock(lock_key), then release returns.
release_untrack(t) ==
  LET m == manager_of(t)
  IN  /\ thr[t].pc = "release_untrack"
      /\ release_connection_for_lock(m, string_to_lock_key(thr[t].lock_name))
      /\ held' = [held EXCEPT ![m] = @ \ {thr[t].lock_name}]
      /\ thr' = [thr EXCEPT ![t] = Idle]
      /\ UNCHANGED <<calls_left, losses_left>>
      /\ UNCHANGED nonLockVars

(***************************************************************************)
(* Failures that propagate out of a call.                                  *)
(***************************************************************************)
\* acquire / release: connection.cursor() or cursor.execute raises on a
\* connection that is closed or lost; nothing catches it.
execute_raises(t) ==
  LET m == manager_of(t)
      c == thr[t].connection
  IN  /\ thr[t].pc \in {"acquire_execute", "release_execute"}
      /\ ~SessionOpen(m, c)
      /\ thr' = [thr EXCEPT ![t] = Idle]
      /\ UNCHANGED <<mgrVars, srvVars, calls_left, losses_left, held>>
      /\ UNCHANGED nonLockVars

\* acquire / acquire_non_blocking / release when the pool cannot connect:
\* _get_connection_for_lock raises on the call's first statement.
call_pool_error(t, n) ==
  /\ thr[t].pc = "idle" /\ calls_left > 0
  /\ get_connection_for_lock_raises(manager_of(t), string_to_lock_key(n))
  /\ calls_left' = calls_left - 1
  /\ UNCHANGED <<pg_locks, thr, losses_left, held>>
  /\ UNCHANGED nonLockVars

\* The same on acquire_non_blocking's second attempt.
retry_pool_error(t) ==
  /\ thr[t].pc = "retry_get"
  /\ get_connection_for_lock_raises(manager_of(t), string_to_lock_key(thr[t].lock_name))
  /\ thr' = [thr EXCEPT ![t] = Idle]
  /\ UNCHANGED <<pg_locks, calls_left, losses_left, held>>
  /\ UNCHANGED nonLockVars

(***************************************************************************)
(* The environment: the server (or the network) ends a session.            *)
(***************************************************************************)
connection_lost(m, c) ==
  /\ losses_left > 0
  /\ sess[m][c] = "open"
  /\ sess' = [sess EXCEPT ![m][c] = "dead"]
  /\ pg_locks' = SessionEnded(m, c)
  /\ losses_left' = losses_left - 1
  /\ UNCHANGED <<mgrVars, opened, thr, calls_left, held>>
  /\ UNCHANGED nonLockVars

(***************************************************************************)
(* PostgresLockManager.heartbeat (caller-driven, rate-limited)             *)
(***************************************************************************)
\* A variant without the daemon test.
DaemonSuppresses_never(daemon) == FALSE

\* if self._heartbeat_daemon: return
DaemonSuppresses(daemon) == daemon

\* A variant whose comparison is off by one second.
HeartbeatDue_early(now, last) == now - last >= HeartbeatInterval - 1

\* The negation of: now - self._last_heartbeat_ts < timedelta(seconds=30)
HeartbeatDue(now, last) == now - last >= HeartbeatInterval

\* if self._acquired_lock_keys and self._connection
HeartbeatNeeded(keys, conn) == keys # {} /\ conn # None

\* The record of one "SELECT 1" handed to a cursor: when, and on what state.
Query(m) == [ts |-> clock, tracked |-> acquired_lock_keys[m] # {}, conn |-> connection[m]]

\* The whole call: the body runs under _thread_lock.  cursor.execute raises on a
\* closed or lost connection and nothing in heartbeat() catches it.
heartbeat(t) ==
  LET m == manager_of(t)
      now == clock
  IN  /\ thr[t].pc = "idle"
      /\ hb_called' = [hb_called EXCEPT
                         ![m] = @ \/ HeartbeatNeeded(acquired_lock_keys[m], connection[m])]
      /\ IF DaemonSuppresses(heartbeat_daemon[m])
           THEN UNCHANGED <<last_heartbeat_ts, hb_log, hb_raised>>
           ELSE IF ~HeartbeatDue(now, last_heartbeat_ts[m])
             THEN UNCHANGED <<last_heartbeat_ts, hb_log, hb_raised>>
             ELSE /\ last_heartbeat_ts' = [last_heartbeat_ts EXCEPT ![m] = now]
                  /\ IF HeartbeatNeeded(acquired_lock_keys[m], connection[m])
                       THEN /\ hb_log' = [hb_log EXCEPT ![m] = Append(@, Query(m))]
                            /\ hb_raised' = [hb_raised EXCEPT
                                               ![m] = @ \/ ~SessionOpen(m, connection[m])]
                       ELSE UNCHANGED <<hb_log, hb_raised>>
      /\ UNCHANGED <<lockVars, clock, heartbeat_daemon, stop_event, worker_thread,
                     workers, worker_sent, imVars, storeVars, restVars>>

(***************************************************************************)
(* PostgresLockManager.start_heartbeat_daemon / stop_heartbeat_daemon and  *)
(* PostgresLockManagerHeartbeatWorker.start / stop / join                  *)
(***************************************************************************)
is_alive(m, w) == w # None /\ workers[m][w].pc \in {"loop", "beat", "wait"}

Created(m) == Cardinality({w \in Workers : workers[m][w].pc # "unstarted"})

\* if self._heartbeat_daemon: self._heartbeat_daemon.start(), up to start()'s test
\* "self._thread is None or not self._thread.is_alive()".
start_heartbeat_daemon(t) ==
  LET m == manager_of(t)
  IN  /\ thr[t].pc = "idle" /\ calls_left > 0
      /\ calls_left' = calls_left - 1
      /\ thr' = IF heartbeat_daemon[m] /\ ~is_alive(m, worker_thread[m])
                  THEN [thr EXCEPT ![t].pc = "start_clear"]
                  ELSE thr
      /\ UNCHANGED <<mgrVars, srvVars, losses_left, held, hbVars, imVars, storeVars, restVars>>

\* self._stop_event.clear()
start_clear(t) ==
  /\ thr[t].pc = "start_clear"
  /\ stop_event' = [stop_event EXCEPT ![manager_of(t)] = FALSE]
  /\ thr' = [thr EXCEPT ![t].pc = "start_thread"]
  /\ UNCHANGED <<mgrVars, srvVars, calls_left, losses_left, held>>
  /\ UNCHANGED <<clock, last_heartbeat_ts, heartbeat_daemon, worker_thread, workers,
                 hb_log, hb_called, hb_raised, worker_sent, imVars, storeVars, restVars>>

\* self._thread = threading.Thread(target=self._run, daemon=True); self._thread.start()
start_thread(t) ==
  LET m == manager_of(t)
      w == Created(m) + 1
  IN  /\ thr[t].pc = "start_thread"
      /\ w <= MaxWorkers
      /\ workers' = [workers EXCEPT ![m][w] = [pc |-> "loop", wake |-> 0]]
      /\ worker_thread' = [worker_thread EXCEPT ![m] = w]
      /\ thr' = [thr EXCEPT ![t] = Idle]
      /\ UNCHANGED <<mgrVars, srvVars, calls_left, losses_left, held>>
      /\ UNCHANGED <<clock, last_heartbeat_ts, heartbeat_daemon, stop_event,
                     hb_log, hb_called, hb_raised, worker_sent, imVars, storeVars, restVars>>

\* if self._heartbeat_daemon: self._heartbeat_daemon.stop(), which sets the event.
stop_heartbeat_daemon(t) ==
  LET m == manager_of(t)
  IN  /\ thr[t].pc = "idle" /\ calls_left > 0
      /\ calls_left' = calls_left - 1
      /\ IF heartbeat_daemon[m]
           THEN /\ stop_event' = [stop_event EXCEPT ![m] = TRUE]
                /\ thr' = [thr EXCEPT ![t].pc = "join"]
           ELSE UNCHANGED <<stop_event, thr>>
      /\ UNCHANGED <<mgrVars, srvVars, losses_left, held>>
      /\ UNCHANGED <<clock, last_heartbeat_ts, heartbeat_daemon, worker_thread, workers,
                     hb_log, hb_called, hb_raised, worker_sent, imVars, storeVars, restVars>>

\* join(): if self._thread: self._thread.join(timeout) -- the thread object is read here.
join(t) ==
  LET m == manager_of(t)
  IN  /\ thr[t].pc = "join"
      /\ thr' = IF worker_thread[m] = None
                  THEN [thr EXCEPT ![t] = Idle]
                  ELSE [thr EXCEPT ![t].pc = "join_wait", ![t].joined = worker_thread[m]]
      /\ UNCHANGED <<mgrVars, srvVars, calls_left, losses_left, held, hbVars, imVars, storeVars, restVars>>

\* Thread.join returns once that thread has finished.
join_wait(t) ==
  /\ thr[t].pc = "join_wait"
  /\ workers[manager_of(t)][thr[t].joined].pc = "finished"
  /\ thr' = [thr EXCEPT ![t] = Idle]
  /\ UNCHANGED <<mgrVars, srvVars, calls_left, losses_left, held, hbVars, imVars, storeVars, restVars>>

(***************************************************************************)
(* PostgresLockManagerHeartbeatWorker._run                                 *)
(***************************************************************************)
\* while not self._stop_event.is_set()
worker_loop(m, w) ==
  /\ workers[m][w].pc = "loop"
  /\ workers' = [workers EXCEPT ![m][w].pc = IF stop_event[m] THEN "finished" ELSE "beat"]
  /\ UNCHANGED <<lockVars, clock, last_heartbeat_ts, heartbeat_daemon, stop_event,
                 worker_thread, hb_log, hb_called, hb_raised, worker_sent, imVars, storeVars, restVars>>

\* try: self.lock_manager.heartbeat_no_time_check() except Exception: logger.error(..)
\* heartbeat_no_time_check runs under _thread_lock; what its cursor.execute
\* raises is caught here, and the loop goes on to wait.
worker_beat(m, w) ==
  /\ workers[m][w].pc = "beat"
  /\ worker_sent' = [worker_sent EXCEPT
                       ![m] = @ \/ HeartbeatNeeded(acquired_lock_keys[m], connection[m])]
  /\ workers' = [workers EXCEPT ![m][w] = [pc |-> "wait", wake |-> clock + HeartbeatInterval]]
  /\ UNCHANGED <<lockVars, clock, last_heartbeat_ts, heartbeat_daemon, stop_event,
                 worker_thread, hb_log, hb_called, hb_raised, imVars, storeVars, restVars>>

\* self._stop_event.wait(self.heartbeat_interval): until the event is set or the
\* interval has passed.
worker_wait(m, w) ==
  /\ workers[m][w].pc = "wait"
  /\ stop_event[m] \/ clock >= workers[m][w].wake
  /\ workers' = [workers EXCEPT ![m][w] = [pc |-> "loop", wake |-> 0]]
  /\ UNCHANGED <<lockVars, clock, last_heartbeat_ts, heartbeat_daemon, stop_event,
                 worker_thread, hb_log, hb_called, hb_raised, worker_sent, imVars, storeVars, restVars>>

(***************************************************************************)
(* The environment: time passes.                                           *)
(***************************************************************************)
\* _last_heartbeat_ts is the epoch; the clock reads a later time.
ClockStart == HeartbeatInterval

TickSteps == {HeartbeatInterval - 1, HeartbeatInterval}

tick(d) ==
  /\ clock + d <= MaxClock
  /\ clock' = clock + d
  /\ UNCHANGED <<lockVars, last_heartbeat_ts, heartbeat_daemon, stop_event, worker_thread,
                 workers, hb_log, hb_called, hb_raised, worker_sent, imVars, storeVars, restVars>>

(***************************************************************************)
(* InMemoryLockManager, shared by the threads of one process.              *)
(***************************************************************************)
ImIdle == [pc |-> "idle", lock_name |-> "-"]

\* acquire: enter the while True loop.
im_acquire(t, n) ==
  /\ im[t].pc = "idle" /\ calls_left > 0
  /\ im' = [im EXCEPT ![t] = [pc |-> "acquire_loop", lock_name |-> n]]
  /\ calls_left' = calls_left - 1
  /\ UNCHANGED <<locks, im_holding, pgVars, hbVars, storeVars, restVars>>

ImFree_always(n) == TRUE

\* if lock_name not in self.locks
ImFree(n) == n \notin locks

\* One turn of the loop, under self._lock: take a free name and return,
\* otherwise sleep and come back.
im_acquire_loop(t) ==
  LET n == im[t].lock_name
  IN  /\ im[t].pc = "acquire_loop"
      /\ IF ImFree(n)
           THEN /\ locks' = locks \cup {n}
                /\ im_holding' = [im_holding EXCEPT ![t] = @ \cup {n}]
                /\ im' = [im EXCEPT ![t] = ImIdle]
           ELSE UNCHANGED <<locks, im_holding, im>>
      /\ UNCHANGED <<lockVars, hbVars, storeVars, restVars>>

\* acquire_non_blocking, under self._lock: False if the name is in the set,
\* else add it and return True.
im_acquire_non_blocking(t, n) ==
  /\ im[t].pc = "idle" /\ calls_left > 0
  /\ calls_left' = calls_left - 1
  /\ IF ~ImFree(n)
       THEN UNCHANGED <<locks, im_holding>>
       ELSE /\ locks' = locks \cup {n}
            /\ im_holding' = [im_holding EXCEPT ![t] = @ \cup {n}]
  /\ UNCHANGED <<im, pgVars, hbVars, storeVars, restVars>>

\* release, under self._lock: self.locks.discard(lock_name)
im_release(t, n) ==
  /\ im[t].pc = "idle" /\ calls_left > 0
  /\ calls_left' = calls_left - 1
  /\ locks' = locks \ {n}
  /\ im_holding' = [im_holding EXCEPT ![t] = @ \ {n}]
  /\ UNCHANGED <<im, pgVars, hbVars, storeVars, restVars>>

(***************************************************************************)
(* DatabaseStore: one caller, each public operation wrapped by retry().    *)
(***************************************************************************)
StoreOps ==
  {"insert", "bulk_insert", "get", "get_all", "get_all_raw", "count", "delete", "raw_query"}

\* The table: rows are identified by their id; name_of is the one column the
\* callers filter on.
Rows == 1..MaxRows

name_of(r) == IF r % 2 = 1 THEN "x" ELSE "y"

FilterVals == {"x", "y", "z"}

\* The rows bulk_insert is given when its list is not empty.
BulkObjs == {1, 2}

\* What the caller passes, as far as the operation reads it: the row insert
\* adds; bulk_insert's list, empty or not; delete's filters, missing, all
\* None-valued, or one name; get's filter, absent or one name; raw_query's
\* statement, a SELECT or a data-modifying one (here DELETE FROM the table).
Arg(tag, row, filter) == [tag |-> tag, row |-> row, filter |-> filter]

NoArg == Arg("-", 0, "-")

StoreArgs(op) ==
  CASE op = "insert"      -> {Arg("obj", r, "-") : r \in Rows}
    [] op = "bulk_insert" -> {Arg("empty", 0, "-"), Arg("objs", 0, "-")}
    [] op = "delete"      -> {Arg("no_filters", 0, "-"), Arg("none_valued", 0, "-")}
                               \cup {Arg("filters", 0, f) : f \in FilterVals}
    [] op = "get"         -> {NoArg} \cup {Arg("filters", 0, f) : f \in FilterVals}
    [] op = "raw_query"   -> {Arg("select", 0, "-"), Arg("dml", 0, "-")}
    [] OTHER              -> {NoArg}

StoreIdle == [pc |-> "idle", op |-> "-", arg |-> NoArg, attempts |-> 0, conn |-> None,
              raised_in |-> "-", outer |-> 0, tries |-> 0, before |-> {},
              executions |-> 0, sleeps |-> 0, rows |-> {}]

\* No call has completed since the last one started.
NoOutcome == [kind |-> "-", op |-> "-", arg |-> NoArg, value |-> {}, before |-> {},
              attempts |-> 0, executions |-> 0, sleeps |-> 0]

\* What the caller sees when the call is over, with what the call did: the
\* attempts made on the operation that runs the query, the queries executed,
\* the backoff sleeps.
Outcome(kind, value) ==
  [kind |-> kind, op |-> st.op, arg |-> st.arg, value |-> value, before |-> st.before,
   attempts |-> st.tries,
   executions |-> st.executions, sleeps |-> st.sleeps]

\* The operations whose body ends with conn.commit() and whose except clause
\* calls conn.rollback().
Commits(op) == op \in {"insert", "bulk_insert", "delete"}

conn_close_noop(open, c) == open

\* PostgresConnection.close
conn_close(open, c) == open \ {c}

\* WHERE key = %s for every filter whose value is not None: no filter, or only
\* None-valued ones, selects every row.
Matching(arg, rows) ==
  IF arg.tag = "filters" THEN {r \in rows : name_of(r) = arg.filter} ELSE rows

Min(S) == CHOOSE m \in S : \A r \in S : m <= r

RECURSIVE FirstN(_, _)
\* ORDER BY id ASC LIMIT n
FirstN(S, n) ==
  IF n = 0 \/ S = {} THEN {} ELSE {Min(S)} \cup FirstN(S \ {Min(S)}, n - 1)

\* The statement the operation executes, as a change of the rows its
\* transaction sees.
Effect(op, arg, rows) ==
  CASE op = "insert"      -> rows \cup {arg.row}
    [] op = "bulk_insert" /\ arg.tag = "objs" -> rows \cup BulkObjs
    [] op = "delete"      -> rows \ Matching(arg, rows)
    [] op = "raw_query" /\ arg.tag = "dml" -> {}
    [] OTHER              -> rows

\* The statement the server refuses: a row whose id (primary key) exists.
Refused(op, arg, rows) ==
  \/ op = "insert" /\ arg.row \in rows
  \/ op = "bulk_insert" /\ arg.tag = "objs" /\ BulkObjs \cap rows # {}

Fetched_first(op, arg, rows) ==
  CASE op = "get" -> FirstN(Matching(arg, rows), 1)
    [] op \in {"get_all", "get_all_raw", "count"} -> rows
    [] op = "raw_query" /\ arg.tag = "select" -> rows
    [] OTHER -> {}

\* The rows the operation fetches: get asks get_all for limit=2.
Fetched(op, arg, rows) ==
  CASE op = "get" -> FirstN(Matching(arg, rows), 2)
    [] op \in {"get_all", "get_all_raw", "count"} -> rows
    [] op = "raw_query" /\ arg.tag = "select" -> rows
    [] OTHER -> {}

\* wrapper(): attempts = 0, enter the while loop.  get's wrapper runs get's
\* body, which calls get_all through get_all's own wrapper.
store_call(op, arg) ==
  /\ st.pc = "idle" /\ calls_left > 0
  /\ calls_left' = calls_left - 1
  /\ st' = [StoreIdle EXCEPT !.pc = IF op = "get" THEN "get_attempt" ELSE "attempt",
                             !.op = op, !.arg = arg, !.before = table]
  /\ outcome' = NoOutcome
  /\ UNCHANGED <<connVars, dataVars, pgVars, hbVars, imVars, restVars>>

\* attempts += 1 and the operation's first lines, before it asks for a
\* connection: bulk_insert returns on an empty list, delete raises ValueError
\* without filters.
wrapper_attempt ==
  /\ st.pc = "attempt"
  /\ LET returns == st.op = "bulk_insert" /\ st.arg.tag = "empty"
         raises  == st.op = "delete" /\ st.arg.tag = "no_filters"
         s == [st EXCEPT !.attempts = @ + 1, !.tries = @ + 1, !.conn = None,
                         !.raised_in = "-"]
     IN  /\ st' = IF returns THEN StoreIdle
                  ELSE [s EXCEPT !.pc = IF raises THEN "except_retry" ELSE "get_connection",
                                 !.raised_in = IF raises THEN "validation" ELSE "-"]
         /\ outcome' = IF returns THEN [Outcome("returned", {}) EXCEPT !.attempts = s.tries]
                       ELSE outcome
  /\ UNCHANGED <<connVars, dataVars, lockVars, hbVars, imVars, restVars>>

\* conn = self._connection_pool.get_connection(): a new session, whose
\* transaction starts from the committed rows.
pool_get_connection ==
  /\ st.pc = "get_connection"
  /\ borrowed' = borrowed + 1
  /\ pool_open' = pool_open \cup {borrowed'}
  /\ closes' = [c \in 1..borrowed' |-> IF c = borrowed' THEN 0 ELSE closes[c]]
  /\ tx' = table
  /\ st' = [st EXCEPT !.conn = borrowed', !.pc = "body"]
  /\ UNCHANGED <<table, outcome, lockVars, hbVars, imVars, restVars>>

\* psycopg2.connect raises: outside the try, straight to the wrapper.
pool_get_connection_raises ==
  /\ st.pc = "get_connection"
  /\ st' = [st EXCEPT !.pc = "except_retry", !.raised_in = "connect"]
  /\ UNCHANGED <<connVars, dataVars, outcome, lockVars, hbVars, imVars, restVars>>

\* Where an exception inside the try goes: the except clause rolls back for
\* the committing operations and only logs for the others.
AfterRaise(op) == IF Commits(op) THEN "rollback" ELSE "finally"

\* delete with filters whose values are all None: ValueError before execute.
NoValidFilters == st.op = "delete" /\ st.arg.tag = "none_valued"

\* The with-block runs to its last statement: the statement is executed in the
\* connection's transaction, the rows are fetched; the committing operations
\* go on to conn.commit(), the others return through finally.
body_done ==
  /\ st.pc = "body"
  /\ ~NoValidFilters
  /\ ~Refused(st.op, st.arg, tx)
  /\ tx' = Effect(st.op, st.arg, tx)
  /\ st' = [st EXCEPT !.pc = IF Commits(st.op) THEN "commit" ELSE "finally",
                      !.executions = @ + 1,
                      !.rows = Fetched(st.op, st.arg, tx)]
  /\ UNCHANGED <<connVars, table, outcome, lockVars, hbVars, imVars, restVars>>

\* conn.cursor(), cursor.execute / executemany or a fetch raises, or delete
\* finds no usable filter and raises ValueError; a statement that failed
\* changes nothing.
body_raises ==
  /\ st.pc = "body"
  /\ st' = [st EXCEPT !.pc = AfterRaise(st.op),
                      !.raised_in = IF NoValidFilters THEN "validation" ELSE "execute",
                      !.executions = IF NoValidFilters THEN @ ELSE @ + 1]
  /\ UNCHANGED <<connVars, dataVars, outcome, lockVars, hbVars, imVars, restVars>>

\* conn.commit() succeeds: the transaction's rows are the table's; return
\* through finally.
commit ==
  /\ st.pc = "commit"
  /\ table' = tx
  /\ st' = [st EXCEPT !.pc = "finally"]
  /\ UNCHANGED <<connVars, tx, outcome, lockVars, hbVars, imVars, restVars>>

\* conn.commit() raises: nothing is committed.
commit_raises ==
  /\ st.pc = "commit"
  /\ st' = [st EXCEPT !.pc = "rollback", !.raised_in = "commit"]
  /\ UNCHANGED <<connVars, dataVars, outcome, lockVars, hbVars, imVars, restVars>>

\* except Exception: conn.rollback(); raise
rollback ==
  /\ st.pc = "rollback"
  /\ tx' = table
  /\ st' = [st EXCEPT !.pc = "finally"]
  /\ UNCHANGED <<connVars, table, outcome, lockVars, hbVars, imVars, restVars>>

\* conn.rollback() itself raises: that exception leaves through finally.
rollback_raises ==
  /\ st.pc = "rollback"
  /\ st' = [st EXCEPT !.pc = "finally", !.raised_in = "rollback"]
  /\ UNCHANGED <<connVars, dataVars, outcome, lockVars, hbVars, imVars, restVars>>

\* finally: conn.close(), then the return or the raise that was pending.  What
\* the session did not commit is gone with it.  A return ends the call, except
\* that get_all returns to get's body.
finally_close ==
  /\ st.pc = "finally"
  /\ pool_open' = conn_close(pool_open, st.conn)
  /\ closes' = [closes EXCEPT ![st.conn] = @ + 1]
  /\ tx' = {}
  /\ st' = IF st.raised_in # "-" THEN [st EXCEPT !.pc = "except_retry"]
           ELSE IF st.op = "get" THEN [st EXCEPT !.pc = "get_results"]
           ELSE StoreIdle
  /\ outcome' = IF st.raised_in = "-" /\ st.op # "get"
                  THEN Outcome("returned", st.rows) ELSE outcome
  /\ UNCHANGED <<borrowed, table, lockVars, hbVars, imVars, restVars>>

\* if attempts >= max_attempts: raise
GivesUp(attempts) == attempts >= max_attempts

\* The wrapper's except clause: re-raise on the last attempt, else sleep and
\* go round the loop.
wrapper_except ==
  /\ st.pc = "except_retry"
  /\ st' = IF GivesUp(st.attempts) THEN [st EXCEPT !.pc = "raised"]
                                   ELSE [st EXCEPT !.pc = "attempt", !.sleeps = @ + 1]
  /\ UNCHANGED <<connVars, dataVars, outcome, lockVars, hbVars, imVars, restVars>>

\* The wrapper re-raises: to the caller, or, out of get_all, into get's wrapper.
store_raised ==
  /\ st.pc = "raised"
  /\ st' = IF st.op = "get" THEN [st EXCEPT !.pc = "get_except"] ELSE StoreIdle
  /\ outcome' = IF st.op = "get" THEN outcome ELSE Outcome("raised", {})
  /\ UNCHANGED <<connVars, dataVars, lockVars, hbVars, imVars, restVars>>

\* get's wrapper: attempts += 1, then get's body calls self.get_all(filters,
\* limit=2), whose wrapper starts from attempts = 0.
get_attempt ==
  /\ st.pc = "get_attempt"
  /\ st' = [st EXCEPT !.outer = @ + 1, !.attempts = 0, !.raised_in = "-", !.pc = "attempt"]
  /\ UNCHANGED <<connVars, dataVars, outcome, lockVars, hbVars, imVars, restVars>>

\* get's body after get_all returned: None, the single result, or ValueError.
get_results ==
  /\ st.pc = "get_results"
  /\ IF Cardinality(st.rows) >= 2
       THEN /\ st' = [st EXCEPT !.pc = "get_except", !.raised_in = "validation"]
            /\ UNCHANGED outcome
       ELSE /\ st' = StoreIdle
            /\ outcome' = Outcome("returned", st.rows)
  /\ UNCHANGED <<connVars, dataVars, lockVars, hbVars, imVars, restVars>>

\* get's wrapper's except clause.
get_except ==
  /\ st.pc = "get_except"
  /\ IF GivesUp(st.outer)
       THEN /\ st' = StoreIdle
            /\ outcome' = Outcome("raised", {})
       ELSE /\ st' = [st EXCEPT !.pc = "get_attempt", !.sleeps = @ + 1]
            /\ UNCHANGED outcome
  /\ UNCHANGED <<connVars, dataVars, lockVars, hbVars, imVars, restVars>>

(***************************************************************************)
(* StatementExecutor: statements built from filters and run on the         *)
(* caller's cursor; the caller's connection commits each statement.        *)
(***************************************************************************)
\* additional_filters, as far as delete reads them: none, or one clause
\* "name = %(n)s".
ExecAdditional == {"-"} \cup FilterVals

ExecFilters ==
  {Arg("no_filters", 0, "-"), Arg("none_valued", 0, "-")}
    \cup {Arg("filters", 0, f) : f \in FilterVals}

_build_delete_raises_never(filters, additional) == FALSE

\* _build_delete_statement: if not filters and not additional_filters
_build_delete_raises(filters, additional) ==
  filters.tag = "no_filters" /\ additional = "-"

\* _build_filter: a None value becomes IS NULL (no row has a null name), any
\* other value an equality; the additional clauses are ANDed after them.
_build_filter(filters, additional, rows) ==
  {r \in rows :
     /\ filters.tag = "filters" => name_of(r) = filters.filter
     /\ filters.tag # "none_valued"
     /\ additional # "-" => name_of(r) = additional}

\* StatementExecutor.delete
executor_delete(filters, additional) ==
  /\ st.pc = "idle" /\ calls_left > 0
  /\ calls_left' = calls_left - 1
  /\ IF _build_delete_raises(filters, additional)
       THEN /\ table' = table
            /\ exec_last' = [call |-> "delete", filters |-> filters,
                             additional |-> additional, updates |-> <<>>,
                             updates_after |-> <<>>,
                             result |-> "raised", before |-> table, after |-> table]
       ELSE /\ table' = table \ _build_filter(filters, additional, table)
            /\ exec_last' = [call |-> "delete", filters |-> filters,
                             additional |-> additional, updates |-> <<>>,
                             updates_after |-> <<>>,
                             result |-> "executed", before |-> table, after |-> table']
  /\ outcome' = NoOutcome
  /\ UNCHANGED <<st, connVars, tx, pgVars, hbVars, imVars, grpcVars, appVars, pageVars, updVars>>

(***************************************************************************)
(* StatementExecutor.get_all_raw_paginate: pages over the table, ordered   *)
(* by one field, resumed from an opaque token.                             *)
(***************************************************************************)
CREATED_TS_FIELD == "created_ts"
ID_FIELD == "id"

\* The fields a caller may ask to paginate by: the two the code supports and
\* another column of the table.
PaginationFields == {CREATED_TS_FIELD, ID_FIELD, "name"}

\* created_ts is kept with sub-millisecond precision: the clock ticks
\* TicksPerMs times in a millisecond, and the rows were created at ticks
\* TsFirst .. TsFirst + MaxTs - 1.
TsValues == TsFirst..(TsFirst + MaxTs - 1)

created_ts_of(r) == row_ts[r]

\* The id column is a string: here two bytes, "r" and a digit.
id_of(r) == <<114, 48 + r>>

RECURSIVE to_base36(_)
\* to_base36: the digits of n, most significant first
to_base36(n) ==
  IF n = 0 THEN <<0>>
  ELSE IF n < 36 THEN <<n>>
  ELSE Append(to_base36(n \div 36), n % 36)

RECURSIVE from_base36(_)
\* from_base36: int(s, 36)
from_base36(s) ==
  IF Len(s) = 0 THEN 0
  ELSE 36 * from_base36(SubSeq(s, 1, Len(s) - 1)) + s[Len(s)]

\* The padding character of base64, next to the 64 digits 0..63.
Pad == 64

RECURSIVE b64encode(_)
\* base64.b64encode: three bytes become four digits of six bits; one or two
\* bytes left over become two or three digits and padding.
b64encode(b) ==
  IF Len(b) = 0 THEN <<>>
  ELSE IF Len(b) = 1
    THEN <<b[1] \div 4, (b[1] % 4) * 16, Pad, Pad>>
  ELSE IF Len(b) = 2
    THEN <<b[1] \div 4, (b[1] % 4) * 16 + b[2] \div 16, (b[2] % 16) * 4, Pad>>
  ELSE <<b[1] \div 4, (b[1] % 4) * 16 + b[2] \div 16,
         (b[2] % 16) * 4 + b[3] \div 64, b[3] % 64>>
         \o b64encode(SubSeq(b, 4, Len(b)))

RECURSIVE b64decode(_)
\* base64.b64decode
b64decode(s) ==
  IF Len(s) < 4 THEN <<>>
  ELSE LET b1 == s[1] * 4 + s[2] \div 16
           b2 == (s[2] % 16) * 16 + s[3] \div 4
           b3 == (s[3] % 4) * 64 + s[4]
       IN  IF s[3] = Pad THEN <<b1>>
           ELSE IF s[4] = Pad THEN <<b1, b2>>
           ELSE <<b1, b2, b3>> \o b64decode(SubSeq(s, 5, Len(s)))

RECURSIVE StrLess(_, _)
\* a < b on strings, byte by byte
StrLess(a, b) ==
  IF Len(b) = 0 THEN FALSE
  ELSE IF Len(a) = 0 THEN TRUE
  ELSE IF a[1] # b[1] THEN a[1] < b[1]
  ELSE StrLess(Tail(a), Tail(b))

\* ORDER BY field: row a sorts strictly before row b in ascending order.
Before(a, b, field) ==
  CASE field = CREATED_TS_FIELD -> created_ts_of(a) < created_ts_of(b)
    [] field = ID_FIELD         -> StrLess(id_of(a), id_of(b))
    [] OTHER                    -> name_of(a) = "x" /\ name_of(b) = "y"

\* The orders the server may return the rows S in for ORDER BY field ASC or
\* DESC: rows with equal values come in any order.
Orders(S, field, asc) ==
  {s \in [1..Cardinality(S) -> S] :
     /\ \A i, j \in 1..Cardinality(S) : i # j => s[i] # s[j]
     /\ \A i, j \in 1..Cardinality(S) :
          i < j => IF asc THEN ~Before(s[j], s[i], field)
                          ELSE ~Before(s[i], s[j], field)}

Smaller(a, b) == IF a < b THEN a ELSE b

RECURSIVE get_all_raw_loop(_, _, _, _, _)
\* The while loop of get_all_raw: OFFSET offset ROWS FETCH NEXT batch ROWS
\* ONLY over the ordered rows, until a batch comes back empty or short.
get_all_raw_loop(sorted, out, offset, batch, limit) ==
  LET results == SubSeq(sorted, offset + 1, Smaller(offset + batch, Len(sorted)))
      out2 == out \o results
  IN  IF results = <<>> THEN out
      ELSE IF Len(results) < batch THEN out2
      ELSE get_all_raw_loop(sorted, out2, offset + batch,
                            Smaller(batch, limit - Len(out2)), limit)

\* get_all_raw: batch = min(10000, limit)
get_all_raw(sorted, limit) ==
  get_all_raw_loop(sorted, <<>>, 0, Smaller(batch_max, limit), limit)

\* No pagination token: None.
NoToken == <<>>

\* The additional filter a token adds: created_ts < the token's millisecond,
\* or id < the token's id.
TokenFilter(token, field, rows) ==
  CASE token = NoToken -> rows
    [] field = CREATED_TS_FIELD ->
         {r \in rows : created_ts_of(r) < from_base36(token) * TicksPerMs}
    [] field = ID_FIELD ->
         {r \in rows : StrLess(id_of(r), b64decode(token))}
    [] OTHER -> rows

\* The token made from the last row of a full page.
NextToken(field, last) ==
  CASE field = CREATED_TS_FIELD -> to_base36(created_ts_of(last) \div TicksPerMs)
    [] field = ID_FIELD         -> b64encode(id_of(last))
    [] OTHER                    -> NoToken

\* The else branches: raise ValueError("Unsupported pagination field")
unsupported(field) == field \notin {CREATED_TS_FIELD, ID_FIELD}

PagerIdle == [pc |-> "idle", field |-> "-", asc |-> FALSE, limit |-> 0,
              token |-> NoToken, resumed |-> FALSE, got |-> <<>>, calls |-> 0]

\* One call of get_all_raw_paginate(token, limit, field, asc), and what the
\* scan p becomes by it.
get_all_raw_paginate(p, token, limit, field, asc) ==
  IF token # NoToken /\ unsupported(field)
    THEN {[p EXCEPT !.pc = "raised", !.calls = @ + 1]}
    ELSE {LET raw_entries == get_all_raw(sorted, limit)
          IN  IF Len(raw_entries) < limit
                THEN [p EXCEPT !.pc = "done", !.token = NoToken, !.calls = @ + 1,
                               !.got = @ \o raw_entries]
              ELSE IF unsupported(field)
                THEN [p EXCEPT !.pc = "raised", !.calls = @ + 1]
              ELSE [p EXCEPT !.pc = "next", !.calls = @ + 1,
                             !.token = NextToken(field, raw_entries[Len(raw_entries)]),
                             !.got = @ \o raw_entries]
          : sorted \in Orders(TokenFilter(token, field, table), field, asc)}

\* The tokens a caller may hold from an earlier scan.
Tokens(field) ==
  {NoToken} \cup
    {NextToken(f, r) : r \in Rows,
                       f \in IF unsupported(field) THEN {CREATED_TS_FIELD, ID_FIELD}
                                                   ELSE {field}}

\* The caller's first call of a scan: page size, field and direction are
\* fixed for the scan; the token is absent, or one kept from earlier.
paginate_first(token, limit, field, asc) ==
  /\ pager.pc \in {"idle", "done", "raised"} /\ calls_left > 0
  /\ calls_left' = calls_left - 1
  /\ pager' \in get_all_raw_paginate(
                  [PagerIdle EXCEPT !.field = field, !.asc = asc, !.limit = limit,
                                    !.resumed = (token # NoToken)],
                  token, limit, field, asc)
  /\ UNCHANGED <<row_ts, gar, exec_last, updVars, storeVars, pgVars, hbVars, imVars,
                 grpcVars, appVars>>

\* The caller's next call, with the token the last call returned.
paginate_next ==
  /\ pager.pc = "next"
  /\ pager' \in get_all_raw_paginate(pager, pager.token, pager.limit, pager.field,
                                     pager.asc)
  /\ UNCHANGED <<row_ts, gar, exec_last, updVars, storeVars, lockVars, hbVars, imVars,
                 grpcVars, appVars>>

(***************************************************************************)
(* StatementExecutor.get_all_raw, one query at a time: every pass of the   *)
(* while loop sends its own SELECT ... OFFSET ... FETCH NEXT, and the      *)
(* server orders rows with equal ORDER BY values anew for each query.      *)
(* The window (10000 in the program) is an input here.                     *)
(***************************************************************************)
GarIdle == [pc |-> "idle", field |-> "-", asc |-> FALSE, limit |-> 0, offset |-> 0,
            batch |-> 0, out |-> <<>>, queries |-> 0]

\* offset = 0; batch = min(window, limit); out = []
get_all_raw_start(field, asc, limit, window) ==
  /\ gar.pc \in {"idle", "done"} /\ calls_left > 0
  /\ calls_left' = calls_left - 1
  /\ gar' = [GarIdle EXCEPT !.pc = "loop", !.field = field, !.asc = asc,
                            !.limit = limit, !.batch = Smaller(window, limit)]
  /\ UNCHANGED <<row_ts, pager, exec_last, updVars, storeVars, pgVars, hbVars, imVars,
                 grpcVars, appVars>>

\* One pass of the loop: execute, fetchall, break on an empty or short
\* batch, else move the offset and shrink the batch to what limit leaves.
get_all_raw_fetch ==
  /\ gar.pc = "loop"
  /\ \E sorted \in Orders(table, gar.field, gar.asc) :
       LET results == SubSeq(sorted, gar.offset + 1,
                             Smaller(gar.offset + gar.batch, Len(sorted)))
           out2 == gar.out \o results
       IN  gar' = IF results = <<>>
                    THEN [gar EXCEPT !.pc = "done", !.queries = @ + 1]
                  ELSE IF Len(results) < gar.batch
                    THEN [gar EXCEPT !.pc = "done", !.queries = @ + 1, !.out = out2]
                  ELSE [gar EXCEPT !.queries = @ + 1, !.out = out2,
                                   !.offset = @ + gar.batch,
                                   !.batch = Smaller(@, gar.limit - Len(out2))]
  /\ UNCHANGED <<row_ts, pager, exec_last, updVars, storeVars, lockVars, hbVars, imVars,
                 grpcVars, appVars>>

(***************************************************************************)
(* StatementExecutor.update: the SET clause built from the caller's        *)
(* updates, a dict from "col" or "col:json.path[@append]" to a value.      *)
(* Strings are sequences of characters; a dict is the sequence of its      *)
(* entries in iteration order.                                             *)
(***************************************************************************)
AtAppend == <<"@", "a", "p", "p", "e", "n", "d">>

LAST_UPDATED_TS_FIELD ==
  <<"l", "a", "s", "t", "_", "u", "p", "d", "a", "t", "e", "d", "_", "t", "s">>

\* The keys a caller updates by: a plain column, and paths into the JSON
\* column m.
UpdateKeys ==
  { <<"n">>,
    <<"m", ":", "a">>,
    <<"m", ":", "a", ".", "b">>,
    <<"m", ":", "a", ".", "b">> \o AtAppend,
    <<"m", ":", "a", ".", "c">> }

UpdateValues == {1, 2}

Entry(key, value) == [key |-> key, value |-> value]

\* The dicts of at most MaxUpdates entries, in every iteration order.
UpdateDicts ==
  UNION {{d \in [1..n -> {Entry(k, v) : k \in UpdateKeys, v \in UpdateValues}] :
            \A i, j \in 1..n : i # j => d[i].key # d[j].key} : n \in 0..MaxUpdates}

\* d[key] = value
dict_set(d, key, value) ==
  IF \E i \in 1..Len(d) : d[i].key = key
    THEN [i \in 1..Len(d) |-> IF d[i].key = key THEN Entry(key, value) ELSE d[i]]
    ELSE Append(d, Entry(key, value))

\* The index of the first ch in s, or 0.
IndexOf(s, ch) ==
  IF \E i \in 1..Len(s) : s[i] = ch
    THEN CHOOSE i \in 1..Len(s) : s[i] = ch /\ \A j \in 1..(i - 1) : s[j] # ch
    ELSE 0

\* s.split(ch, 1)
split_once(s, ch) ==
  IF IndexOf(s, ch) = 0 THEN <<s>>
  ELSE <<SubSeq(s, 1, IndexOf(s, ch) - 1), SubSeq(s, IndexOf(s, ch) + 1, Len(s))>>

RECURSIVE split(_, _)
\* s.split(ch)
split(s, ch) ==
  IF IndexOf(s, ch) = 0 THEN <<s>>
  ELSE <<SubSeq(s, 1, IndexOf(s, ch) - 1)>>
         \o split(SubSeq(s, IndexOf(s, ch) + 1, Len(s)), ch)

split_by_dot(s) == split(s, ".")

\* s.endswith(suffix)
endswith(s, suffix) ==
  Len(s) >= Len(suffix) /\ SubSeq(s, Len(s) - Len(suffix) + 1, Len(s)) = suffix

\* key.split(":", 1)[0]
col_of(key) == split_once(key, ":")[1]

\* The JSON path of a key: what follows the first ":", or "".
json_path_of(key) ==
  IF Len(split_once(key, ":")) = 1 THEN <<>> ELSE split_once(key, ":")[2]

\* _extract_json_path: path_to_val[json_path] = updates[field], entry by entry.
RECURSIVE _extract_json_path(_, _)
_extract_json_path(updates, path_to_val) ==
  IF updates = <<>> THEN path_to_val
  ELSE _extract_json_path(Tail(updates),
         dict_set(path_to_val, json_path_of(Head(updates).key), Head(updates).value))

\* UpdateNode(path, update_mode, value); a node's children are the nodes
\* whose path is the node's path and one more part.
UpdateNode(path, update_mode, value) ==
  [path |-> path, update_mode |-> update_mode, value |-> value]

\* raise ValueError("Conflicting update path")
Conflict == [raised |-> TRUE, nodes |-> {}]

SameNode_always(child, new_node) == TRUE

\* not (child.update_mode != new_node.update_mode or child.value != new_node.value)
SameNode(child, new_node) ==
  child.update_mode = new_node.update_mode /\ child.value = new_node.value

RECURSIVE add_parts(_, _, _, _)
\* The inner loop of _build_update_clause_tree over the parts of one path,
\* below the node at path current.
add_parts(tree, current, parts, value) ==
  IF parts = <<>> THEN tree
  ELSE
    LET part == Head(parts)
        last == Len(parts) = 1
        new_node ==
          IF last
            THEN IF endswith(part, AtAppend)
                   THEN UpdateNode(Append(current, SubSeq(part, 1, Len(part) - Len(AtAppend))),
                                   "append", value)
                   ELSE UpdateNode(Append(current, part), "update", value)
            ELSE UpdateNode(Append(current, part), "none", None)
        found == {child \in tree.nodes : child.path = new_node.path}
    IN  IF found # {}
          THEN IF \E child \in found : ~SameNode(child, new_node)
                 THEN Conflict
                 ELSE add_parts(tree, new_node.path, Tail(parts), value)
          ELSE add_parts([tree EXCEPT !.nodes = @ \cup {new_node}], new_node.path,
                         Tail(parts), value)

RECURSIVE add_paths(_, _, _)
\* The outer loop: for path in path_to_val
add_paths(tree, col_name, path_to_val) ==
  IF path_to_val = <<>> \/ tree.raised THEN tree
  ELSE add_paths(add_parts(tree, <<col_name>>, split_by_dot(Head(path_to_val).key),
                           Head(path_to_val).value),
                 col_name, Tail(path_to_val))

\* _build_update_clause_tree
_build_update_clause_tree(col_name, path_to_val) ==
  IF Len(path_to_val) = 1 /\ path_to_val[1].key = <<>>
    THEN [raised |-> FALSE,
          nodes |-> {UpdateNode(<<col_name>>, "update", path_to_val[1].value)}]
    ELSE add_paths([raised |-> FALSE, nodes |-> {UpdateNode(<<col_name>>, "none", None)}],
                   col_name, path_to_val)

\* _build_update: col_updates[col_name], the entries of one column in order.
RECURSIVE col_updates(_, _)
col_updates(updates, col_name) ==
  IF updates = <<>> THEN <<>>
  ELSE IF col_of(Head(updates).key) = col_name
    THEN <<Head(updates)>> \o col_updates(Tail(updates), col_name)
    ELSE col_updates(Tail(updates), col_name)

\* _build_update: one clause per column; it raises when the tree of one of
\* the columns does.
_build_update_raises(updates) ==
  \E i \in 1..Len(updates) :
    _build_update_clause_tree(
      col_of(updates[i].key),
      _extract_json_path(col_updates(updates, col_of(updates[i].key)), <<>>)).raised

\* The filters the callers of update pass.
UpdateFilters == {Arg("no_filters", 0, "-"), Arg("filters", 0, "x"), Arg("filters", 0, "y")}

UpdateAdditional == {"-", "x"}

\* _build_update_statement raises: no filters at all, no updates, or a
\* conflict found while the SET clause is built from the updates and
\* last_updated_ts.
_build_update_statement_raises(filters, additional, updates, now) ==
  \/ filters.tag = "no_filters" /\ additional = "-"
  \/ Len(updates) = 0
  \/ _build_update_raises(dict_set(updates, LAST_UPDATED_TS_FIELD, now))

\* The caller's dict when _build_update_statement is over: past the two
\* checks, updates[LAST_UPDATED_TS_FIELD] = datetime.now(timezone.utc) is an
\* assignment into the dict the caller passed.
updates_after_build(filters, additional, updates, now) ==
  IF (filters.tag = "no_filters" /\ additional = "-") \/ Len(updates) = 0
    THEN updates
    ELSE dict_set(updates, LAST_UPDATED_TS_FIELD, now)

\* StatementExecutor.update: the statement sets last_updated_ts to
\* datetime.now(timezone.utc) on every row the filters select.
executor_update(filters, additional, updates) ==
  /\ st.pc = "idle" /\ uu.pc = "idle" /\ calls_left > 0
  /\ calls_left' = calls_left - 1
  /\ IF _build_update_statement_raises(filters, additional, updates, clock)
       THEN /\ UNCHANGED <<last_updated_ts, update_count>>
            /\ exec_last' = [call |-> "update", filters |-> filters,
                             additional |-> additional, updates |-> updates,
                             updates_after |->
                               updates_after_build(filters, additional, updates, clock),
                             result |-> "raised",
                             before |-> last_updated_ts, after |-> last_updated_ts]
       ELSE /\ last_updated_ts' =
                 [r \in Rows |-> IF r \in _build_filter(filters, additional, table)
                                   THEN clock ELSE last_updated_ts[r]]
            /\ update_count' =
                 [r \in Rows |-> IF r \in _build_filter(filters, additional, table)
                                   THEN update_count[r] + 1 ELSE update_count[r]]
            /\ exec_last' = [call |-> "update", filters |-> filters,
                             additional |-> additional, updates |-> updates,
                             updates_after |->
                               updates_after_build(filters, additional, updates, clock),
                             result |-> "executed",
                             before |-> last_updated_ts, after |-> last_updated_ts']
  /\ UNCHANGED <<uu, pageVars, storeVars, pgVars, hbVars, imVars, grpcVars, appVars>>

(***************************************************************************)
(* PostgresUserStorage.update_user: delete the user's row, insert the      *)
(* caller's User in its place.  DatabaseStore.delete and insert are taken  *)
(* as single steps that return or raise.                                   *)
(***************************************************************************)
UuIdle == [pc |-> "idle", user |-> 0, ts |-> None]

\* The last_updated_ts of the User the caller passes: None, the time its
\* object was first read, or the row's current one.
UserTs(r) == {None, ClockStart, last_updated_ts[r]}

update_user(r, ts) ==
  /\ st.pc = "idle" /\ uu.pc = "idle" /\ calls_left > 0
  /\ calls_left' = calls_left - 1
  /\ uu' = [pc |-> "delete_user", user |-> r, ts |-> ts]
  /\ UNCHANGED <<exec_last, last_updated_ts, update_count, pageVars, storeVars, pgVars,
                 hbVars, imVars, grpcVars, appVars>>

\* delete_user: self._store.delete(filters={"id": user_id}) returned the
\* number of rows deleted; update_user goes on when it is positive.
delete_user_returns ==
  /\ uu.pc = "delete_user"
  /\ table' = table \ {uu.user}
  /\ uu' = IF uu.user \in table THEN [uu EXCEPT !.pc = "insert"] ELSE UuIdle
  /\ UNCHANGED <<exec_last, last_updated_ts, update_count, pageVars, st, connVars, tx,
                 outcome, lockVars, hbVars, imVars, grpcVars, appVars>>

\* delete raised: delete_user returns False, update_user returns None.
delete_user_raises ==
  /\ uu.pc = "delete_user"
  /\ uu' = UuIdle
  /\ UNCHANGED <<exec_last, last_updated_ts, update_count, pageVars, storeVars, lockVars,
                 hbVars, imVars, grpcVars, appVars>>

\* self._store.insert(user): last_updated_ts is the User's own unless it is
\* missing, and then now.
insert_user_returns ==
  /\ uu.pc = "insert"
  /\ table' = table \cup {uu.user}
  /\ last_updated_ts' = [last_updated_ts EXCEPT ![uu.user] =
                           IF uu.ts = None THEN clock ELSE uu.ts]
  /\ update_count' = [update_count EXCEPT ![uu.user] = @ + 1]
  /\ uu' = UuIdle
  /\ UNCHANGED <<exec_last, pageVars, st, connVars, tx, outcome, lockVars, hbVars, imVars,
                 grpcVars, appVars>>

\* insert raised: update_user returns None, the row stays deleted.
insert_user_raises ==
  /\ uu.pc = "insert"
  /\ uu' = UuIdle
  /\ UNCHANGED <<exec_last, last_updated_ts, update_count, pageVars, storeVars, lockVars,
                 hbVars, imVars, grpcVars, appVars>>

(***************************************************************************)
(* GrpcClient (UI server): one caller, one gRPC server that is reachable   *)
(* or not.  An RPC to a server that is not reachable raises, or does not   *)
(* return within the caller's timeout.                                     *)
(***************************************************************************)
Returned(call, result) == [call |-> call, result |-> result, up |-> server_up]

\* GrpcClient.health_check, as connect awaits it: what it returns or how it
\* ends, given self.connected when it is called.
health_check_result(connected, up) ==
  IF ~connected THEN {"False"}
  ELSE IF up THEN {"True"}
  ELSE {"False", "timeout"}

\* GrpcClient.connect: create channel and stub, await health_check() for at
\* most 5 seconds; its return value is not read.
connect ==
  /\ calls_left > 0
  /\ calls_left' = calls_left - 1
  /\ \E r \in health_check_result(client.connected, server_up) :
       IF r = "timeout"
         THEN /\ client' = [channel |-> TRUE, stub |-> TRUE, connected |-> FALSE]
              /\ grpc_last' = Returned("connect", "False")
         ELSE /\ client' = [channel |-> TRUE, stub |-> TRUE, connected |-> TRUE]
              /\ grpc_last' = Returned("connect", "True")
  /\ UNCHANGED <<server_up, execVars, appVars, storeVars, pgVars, hbVars, imVars>>

\* GrpcClient.disconnect
disconnect ==
  /\ calls_left > 0
  /\ calls_left' = calls_left - 1
  /\ client' = [client EXCEPT !.connected = FALSE]
  /\ grpc_last' = Returned("disconnect", "None")
  /\ UNCHANGED <<server_up, execVars, appVars, storeVars, pgVars, hbVars, imVars>>

\* GrpcClient.say_hello
say_hello ==
  /\ calls_left > 0
  /\ calls_left' = calls_left - 1
  /\ IF ~client.connected
       THEN /\ grpc_last' = Returned("say_hello", "raised")
            /\ UNCHANGED client
       ELSE IF server_up
         THEN /\ grpc_last' = Returned("say_hello", "message")
              /\ UNCHANGED client
         ELSE /\ grpc_last' = Returned("say_hello", "raised")
              /\ client' = [client EXCEPT !.connected = FALSE]
  /\ UNCHANGED <<server_up, execVars, appVars, storeVars, pgVars, hbVars, imVars>>

\* GrpcClient.health_check, called by the UI server
health_check ==
  /\ calls_left > 0
  /\ calls_left' = calls_left - 1
  /\ IF client.connected /\ server_up
       THEN /\ grpc_last' = Returned("health_check", "True")
            /\ UNCHANGED client
       ELSE /\ grpc_last' = Returned("health_check", "False")
            /\ client' = [client EXCEPT !.connected = FALSE]
  /\ UNCHANGED <<server_up, execVars, appVars, storeVars, pgVars, hbVars, imVars>>

\* The gRPC server starts or stops answering.
server_toggle ==
  /\ server_up' = ~server_up
  /\ UNCHANGED <<client, grpc_last, execVars, appVars, storeVars, lockVars, hbVars, imVars>>

(***************************************************************************)
(* PostgresGrpcStorage.cleanup_old_requests over its DatabaseStore: one    *)
(* get_all_raw, then one raw_query per batch of ids.                       *)
(***************************************************************************)
ClIdle == [pc |-> "idle", keep_count |-> 0, ids_to_delete |-> <<>>, i |-> 0,
           deleted_count |-> 0, before |-> {}, returned |-> None]

\* cleanup_old_requests(keep_count)
cleanup_old_requests(keep_count) ==
  /\ st.pc = "idle" /\ cl.pc \in {"idle", "returned"} /\ calls_left > 0
  /\ calls_left' = calls_left - 1
  /\ cl' = [ClIdle EXCEPT !.pc = "get_all_raw", !.keep_count = keep_count,
                          !.before = table]
  /\ UNCHANGED <<storeVars, pgVars, hbVars, imVars, grpcVars, execVars, svcVars>>

\* old_requests = get_all_raw(order_by="created_ts", order_by_asc=False);
\* return 0 unless there are more than keep_count; the ids to delete are
\* old_requests[keep_count:].
cleanup_select ==
  /\ cl.pc = "get_all_raw"
  /\ \E old_requests \in Orders(table, CREATED_TS_FIELD, FALSE) :
       cl' = IF Len(old_requests) <= cl.keep_count
               THEN [cl EXCEPT !.pc = "returned", !.returned = 0]
               ELSE [cl EXCEPT !.pc = "batch",
                               !.ids_to_delete = SubSeq(old_requests, cl.keep_count + 1,
                                                        Len(old_requests))]
  /\ UNCHANGED <<storeVars, lockVars, hbVars, imVars, grpcVars, execVars, svcVars>>

\* for i in range(0, len(ids_to_delete), batch_size): raw_query executes
\* DELETE ... WHERE id = ANY(batch_ids) on a connection from the pool.
cleanup_raw_query ==
  /\ cl.pc = "batch" /\ cl.i < Len(cl.ids_to_delete)
  /\ tx' = table \ {cl.ids_to_delete[j] :
                      j \in (cl.i + 1)..Smaller(cl.i + batch_size, Len(cl.ids_to_delete))}
  /\ cl' = [cl EXCEPT !.pc = "close"]
  /\ UNCHANGED <<st, connVars, table, outcome, lockVars, hbVars, imVars, grpcVars, execVars, svcVars>>

\* raw_query's finally: conn.close(), which ends the transaction as
\* raw_query left it; then deleted_count += len(batch_ids).
cleanup_raw_query_close ==
  /\ cl.pc = "close"
  /\ table' = IF Commits("raw_query") THEN tx ELSE table
  /\ tx' = {}
  /\ cl' = [cl EXCEPT !.pc = "batch", !.i = @ + batch_size,
                      !.deleted_count =
                        @ + (Smaller(cl.i + batch_size, Len(cl.ids_to_delete)) - cl.i)]
  /\ UNCHANGED <<st, connVars, outcome, lockVars, hbVars, imVars, grpcVars, execVars, svcVars>>

\* return deleted_count
cleanup_return ==
  /\ cl.pc = "batch" /\ cl.i >= Len(cl.ids_to_delete)
  /\ cl' = [cl EXCEPT !.pc = "returned", !.returned = cl.deleted_count]
  /\ UNCHANGED <<storeVars, lockVars, hbVars, imVars, grpcVars, execVars, svcVars>>

(***************************************************************************)
(* _string_to_lock_key, called with a name of any digest.                  *)
(***************************************************************************)
NoKey == [called |-> FALSE, unsigned |-> 0, key |-> 0]

\* _string_to_lock_key(lock_name), with u the value of int(hash_value[:16], 16)
lock_key_call(m, u) ==
  /\ lock_key' = [lock_key EXCEPT ![m] = [called |-> TRUE, unsigned |-> u, key |-> to_signed(u)]]
  /\ UNCHANGED <<lockVars, hbVars, imVars, storeVars, grpcVars, execVars, cl, userVars, b36Vars>>

(***************************************************************************)
(* PostgresUserStorage.create_user, called by several threads.             *)
(***************************************************************************)
CuThreads == {"u1", "u2"}
Usernames == {"alice", "bob"}
Emails == {"a@x", "b@x"}

CuIdle == [pc |-> "idle", username |-> "-", email |-> "-", result |-> "-"]

\* Optional[User]: None
NoUser == [id |-> None, username |-> "-", email |-> "-"]

\* DatabaseStore.get(filters={field: value}): the record, None when there is
\* none; with two or more it raises ValueError, which get_user_by_username and
\* get_user_by_email catch to return None.
get_user_by(field, value) ==
  LET found == {u \in users : u[field] = value}
  IN  IF Cardinality(found) = 1 THEN CHOOSE u \in found : TRUE ELSE NoUser

\* if self.get_user_by_username(username): / if self.get_user_by_email(email):
exists(user) == user # NoUser

\* create_user(username, email, password_hash) is called.
create_user(t, username, email) ==
  /\ cu[t].pc \in {"idle", "returned"} /\ calls_left > 0
  /\ calls_left' = calls_left - 1
  /\ cu' = [cu EXCEPT ![t] = [pc |-> "check_username", username |-> username,
                              email |-> email, result |-> "-"]]
  /\ UNCHANGED <<users, pgVars, hbVars, imVars, storeVars, grpcVars, execVars, cl,
                 keyVars, b36Vars>>

\* if self.get_user_by_username(username): return None
create_user_check_username(t) ==
  /\ cu[t].pc = "check_username"
  /\ cu' = IF exists(get_user_by("username", cu[t].username))
             THEN [cu EXCEPT ![t].pc = "returned", ![t].result = "None"]
             ELSE [cu EXCEPT ![t].pc = "check_email"]
  /\ UNCHANGED <<users, lockVars, hbVars, imVars, storeVars, grpcVars, execVars, cl,
                 keyVars, b36Vars>>

\* if self.get_user_by_email(email): return None
create_user_check_email(t) ==
  /\ cu[t].pc = "check_email"
  /\ cu' = IF exists(get_user_by("email", cu[t].email))
             THEN [cu EXCEPT ![t].pc = "returned", ![t].result = "None"]
             ELSE [cu EXCEPT ![t].pc = "insert"]
  /\ UNCHANGED <<users, lockVars, hbVars, imVars, storeVars, grpcVars, execVars, cl,
                 keyVars, b36Vars>>

\* user = User(id=str(uuid.uuid4()), ..); self._store.insert(user), which commits;
\* return user.  A uuid4 is an id no record has.
create_user_insert(t) ==
  /\ cu[t].pc = "insert"
  /\ users' = users \cup {[id |-> Cardinality(users) + 1, username |-> cu[t].username,
                           email |-> cu[t].email]}
  /\ cu' = [cu EXCEPT ![t].pc = "returned", ![t].result = "User"]
  /\ UNCHANGED <<lockVars, hbVars, imVars, storeVars, grpcVars, execVars, cl,
                 keyVars, b36Vars>>

\* self._store.insert(user) raises after its retries: except Exception: return None
create_user_insert_raises(t) ==
  /\ cu[t].pc = "insert"
  /\ cu' = [cu EXCEPT ![t].pc = "returned", ![t].result = "None"]
  /\ UNCHANGED <<users, lockVars, hbVars, imVars, storeVars, grpcVars, execVars, cl,
                 keyVars, b36Vars>>

(***************************************************************************)
(* to_base36, one iteration of its loop at a time.  Python's % and // with *)
(* a positive divisor round toward minus infinity, as % and \div do here.  *)
(***************************************************************************)
B36Idle == [pc |-> "idle", input |-> 0, n |-> 0, result |-> <<>>]

\* The millisecond timestamps a token is made of, before the epoch included.
Milliseconds == (0 - MaxMs)..MaxMs

\* to_base36(n): if n == 0: return "0"; result = ""
to_base36_call(n) ==
  /\ b36.pc \in {"idle", "returned"}
  /\ b36' = IF n = 0
              THEN [pc |-> "returned", input |-> n, n |-> n, result |-> <<0>>]
              ELSE [pc |-> "loop", input |-> n, n |-> n, result |-> <<>>]
  /\ UNCHANGED <<lockVars, hbVars, imVars, storeVars, grpcVars, execVars, cl,
                 keyVars, userVars>>

\* while n: result = digits[n % 36] + result; n //= 36 -- and return result
\* once n is 0.  The loop is followed for MaxIterations iterations.
to_base36_loop ==
  /\ b36.pc = "loop"
  /\ b36.n # 0 => Len(b36.result) < MaxIterations
  /\ b36' = IF b36.n # 0
              THEN [b36 EXCEPT !.result = <<b36.n % 36>> \o @, !.n = @ \div 36]
              ELSE [b36 EXCEPT !.pc = "returned"]
  /\ UNCHANGED <<lockVars, hbVars, imVars, storeVars, grpcVars, execVars, cl,
                 keyVars, userVars>>

(***************************************************************************)
(* Initial state: the state after construction.                            *)
(***************************************************************************)
InitLock ==
  /\ connection = [m \in Managers |-> None]
  /\ acquired_lock_keys = [m \in Managers |-> {}]
  /\ opened = [m \in Managers |-> 0]
  /\ sess = [m \in Managers |-> [c \in 1..MaxConns |-> "unused"]]
  /\ pg_locks = [k \in Keys |-> Free]
  /\ thr = [t \in PgThreads |-> Idle]
  /\ losses_left = MaxLosses
  /\ held = [m \in Managers |-> {}]

InitHeartbeat ==
  /\ clock = ClockStart
  /\ last_heartbeat_ts = [m \in Managers |-> 0]
  /\ stop_event = [m \in Managers |-> FALSE]
  /\ worker_thread = [m \in Managers |-> None]
  /\ workers = [m \in Managers |-> [w \in Workers |-> Unstarted]]
  /\ hb_log = [m \in Managers |-> <<>>]
  /\ hb_called = [m \in Managers |-> FALSE]
  /\ hb_raised = [m \in Managers |-> FALSE]
  /\ worker_sent = [m \in Managers |-> FALSE]

InitInMemory ==
  /\ locks = {}
  /\ im = [t \in ImThreads |-> ImIdle]
  /\ im_holding = [t \in ImThreads |-> {}]

InitStoreVars ==
  /\ st = StoreIdle
  /\ pool_open = {}
  /\ borrowed = 0
  /\ closes = <<>>
  /\ tx = {}
  /\ outcome = NoOutcome

\* GrpcClient.__init__
InitGrpcClient ==
  /\ client = [channel |-> FALSE, stub |-> FALSE, connected |-> FALSE]
  /\ grpc_last = [call |-> "-", result |-> "-", up |-> FALSE]

\* No StatementExecutor call has been made.
NoExec == [call |-> "-", filters |-> NoArg, additional |-> "-", updates |-> <<>>,
           updates_after |-> <<>>, result |-> "-", before |-> {}, after |-> {}]

\* The rows were inserted when the clock read ClockStart.
InitUpdates ==
  /\ last_updated_ts = [r \in Rows |-> ClockStart]
  /\ update_count = [r \in Rows |-> 0]
  /\ uu = UuIdle

InitExecutor ==
  /\ exec_last = NoExec
  /\ row_ts = [r \in Rows |-> TsFirst]
  /\ pager = PagerIdle
  /\ gar = GarIdle
  /\ InitUpdates

\* Everything outside the lock managers, as constructed.
InitKeys == lock_key = [m \in Managers |-> NoKey]

InitUsers == users = {} /\ cu = [t \in CuThreads |-> CuIdle]

InitB36 == b36 = B36Idle

InitApp == cl = ClIdle /\ InitKeys /\ InitUsers /\ InitB36

InitRest == InitGrpcClient /\ server_up = FALSE /\ InitExecutor /\ InitApp

NoDaemon == heartbeat_daemon = [m \in Managers |-> FALSE]

LockStep(t) ==
  \/ \E n \in Names : acquire(t, n)
  \/ acquire_execute(t)
  \/ \E n \in Names : acquire_non_blocking(t, n)
  \/ try_execute(t)
  \/ not_acquired(t)
  \/ try_execute_closed(t)
  \/ try_execute_other_error(t)
  \/ retry_release(t)
  \/ retry_get(t)
  \/ \E n \in Names : release(t, n)
  \/ release_execute(t)
  \/ release_untrack(t)
  \/ execute_raises(t)
  \/ \E n \in Names : call_pool_error(t, n)
  \/ retry_pool_error(t)

(***************************************************************************)
(* Two managers, one calling thread each.                                  *)
(***************************************************************************)
InitTwoManagers ==
  /\ InitLock /\ InitHeartbeat /\ NoDaemon /\ InitInMemory /\ InitStoreVars /\ table = {} /\ InitRest
  /\ calls_left = MaxCalls

TwoManagersNext ==
  \/ \E t \in {"a1", "b1"} : LockStep(t)
  \/ \E m \in Managers, c \in 1..MaxConns : connection_lost(m, c)

SpecTwoManagers == InitTwoManagers /\ [][TwoManagersNext]_vars

(***************************************************************************)
(* Manager A shared by two threads, manager B contending.                  *)
(***************************************************************************)
InitThreads ==
  /\ InitLock /\ InitHeartbeat /\ NoDaemon /\ InitInMemory /\ InitStoreVars /\ table = {} /\ InitRest
  /\ calls_left = MaxThreadCalls

ThreadsNext ==
  \/ \E t \in PgThreads : LockStep(t)
  \/ \E m \in Managers, c \in 1..MaxConns : connection_lost(m, c)

SpecThreads == InitThreads /\ [][ThreadsNext]_vars

(***************************************************************************)
(* One manager, constructed with or without heartbeat_daemon, its lock     *)
(* calls, its heartbeats and its worker, over a clock.                     *)
(***************************************************************************)
HbThreads == {"a1", "a2"}

InitHb ==
  /\ InitLock /\ InitHeartbeat /\ InitInMemory /\ InitStoreVars /\ table = {} /\ InitRest
  /\ heartbeat_daemon \in {[m \in Managers |-> m = "A" /\ d] : d \in BOOLEAN}
  /\ calls_left = MaxHbCalls

HeartbeatNext ==
  \/ \E t \in HbThreads :
        \/ acquire(t, "n1")
        \/ acquire_execute(t)
        \/ release(t, "n1")
        \/ release_execute(t)
        \/ release_untrack(t)
        \/ execute_raises(t)
        \/ heartbeat(t)
        \/ start_heartbeat_daemon(t)
        \/ start_clear(t)
        \/ start_thread(t)
        \/ stop_heartbeat_daemon(t)
        \/ join(t)
        \/ join_wait(t)
  \/ \E w \in Workers : worker_loop("A", w) \/ worker_beat("A", w) \/ worker_wait("A", w)
  \/ \E c \in 1..MaxConns : connection_lost("A", c)
  \/ \E d \in TickSteps : tick(d)

SpecHeartbeat == InitHb /\ [][HeartbeatNext]_vars

(***************************************************************************)
(* One InMemoryLockManager shared by two threads.                          *)
(***************************************************************************)
InitIm ==
  /\ InitLock /\ InitHeartbeat /\ NoDaemon /\ InitInMemory /\ InitStoreVars /\ table = {} /\ InitRest
  /\ calls_left = MaxImCalls

ImStep(t) ==
  \/ \E n \in Names : im_acquire(t, n)
  \/ im_acquire_loop(t)
  \/ \E n \in Names : im_acquire_non_blocking(t, n)
  \/ \E n \in Names : im_release(t, n)

InMemoryNext == \E t \in ImThreads : ImStep(t)

SpecInMemory == InitIm /\ [][InMemoryNext]_vars

(***************************************************************************)
(* Blocking acquire under fair scheduling, with no failure injected: two   *)
(* PostgreSQL managers (one thread each) and two in-memory threads, every  *)
(* thread scheduled again and again while it has a step to take.           *)
(***************************************************************************)
InitLive ==
  /\ InitLock /\ InitHeartbeat /\ NoDaemon /\ InitInMemory /\ InitStoreVars /\ table = {} /\ InitRest
  /\ calls_left = MaxLiveCalls

PgLiveStep(t) ==
  \/ \E n \in Names : acquire(t, n)
  \/ acquire_execute(t)
  \/ \E n \in Names : release(t, n)
  \/ release_execute(t)
  \/ release_untrack(t)

ImLiveStep(t) ==
  \/ \E n \in Names : im_acquire(t, n)
  \/ im_acquire_loop(t)
  \/ \E n \in Names : im_release(t, n)

LiveNext ==
  \/ \E t \in {"a1", "b1"} : PgLiveStep(t)
  \/ \E t \in ImThreads : ImLiveStep(t)

LiveFairness ==
  /\ \A t \in {"a1", "b1"} :
       WF_vars(acquire_execute(t)) /\ WF_vars(release_execute(t)) /\ WF_vars(release_untrack(t))
  /\ \A t \in ImThreads : WF_vars(im_acquire_loop(t))

SpecLive == InitLive /\ [][LiveNext]_vars /\ LiveFairness

(***************************************************************************)
(* One caller of a DatabaseStore over a pool that may fail at any point.   *)
(***************************************************************************)
InitStore ==
  /\ InitLock /\ InitHeartbeat /\ NoDaemon /\ InitInMemory /\ InitStoreVars /\ InitRest
  /\ table \in SUBSET Rows
  /\ calls_left = MaxStoreCalls

StoreNext ==
  \/ \E op \in StoreOps : \E arg \in StoreArgs(op) : store_call(op, arg)
  \/ wrapper_attempt
  \/ pool_get_connection
  \/ pool_get_connection_raises
  \/ body_done
  \/ body_raises
  \/ commit
  \/ commit_raises
  \/ rollback
  \/ rollback_raises
  \/ finally_close
  \/ wrapper_except
  \/ store_raised
  \/ get_attempt
  \/ get_results
  \/ get_except

SpecStore == InitStore /\ [][StoreNext]_vars

(***************************************************************************)
(* One caller deleting from a table, through DatabaseStore.delete and      *)
(* through StatementExecutor.delete.                                       *)
(***************************************************************************)
InitDelete == InitStore

DeleteNext ==
  \/ \E arg \in StoreArgs("delete") : store_call("delete", arg)
  \/ wrapper_attempt
  \/ pool_get_connection
  \/ pool_get_connection_raises
  \/ body_done
  \/ body_raises
  \/ commit
  \/ commit_raises
  \/ rollback
  \/ rollback_raises
  \/ finally_close
  \/ wrapper_except
  \/ store_raised
  \/ \E filters \in ExecFilters : \E additional \in ExecAdditional :
       executor_delete(filters, additional)

SpecDelete == InitDelete /\ [][DeleteNext]_vars

(***************************************************************************)
(* One caller scanning a table with get_all_raw_paginate.                  *)
(***************************************************************************)
InitPaginate ==
  /\ InitLock /\ InitHeartbeat /\ NoDaemon /\ InitInMemory /\ InitStoreVars
  /\ InitGrpcClient /\ server_up = FALSE
  /\ exec_last = NoExec
  /\ pager = PagerIdle
  /\ gar = GarIdle
  /\ InitUpdates /\ InitApp
  /\ table \in SUBSET Rows
  /\ row_ts \in [Rows -> TsValues]
  /\ calls_left = MaxScans

PaginateNext ==
  \/ \E field \in PaginationFields : \E asc \in BOOLEAN : \E limit \in 1..MaxLimit :
       \E token \in Tokens(field) : paginate_first(token, limit, field, asc)
  \/ paginate_next

SpecPaginate == InitPaginate /\ [][PaginateNext]_vars

(***************************************************************************)
(* One caller of StatementExecutor.update, with every dict of updates.     *)
(***************************************************************************)
InitBuildUpdate ==
  /\ InitLock /\ InitHeartbeat /\ NoDaemon /\ InitInMemory /\ InitStoreVars /\ InitRest
  /\ table = Rows
  /\ calls_left = 1

BuildUpdateNext ==
  \/ \E filters \in UpdateFilters : \E additional \in UpdateAdditional :
       \E updates \in UpdateDicts : executor_update(filters, additional, updates)

SpecBuildUpdate == InitBuildUpdate /\ [][BuildUpdateNext]_vars

(***************************************************************************)
(* One caller updating rows over time, through StatementExecutor.update    *)
(* and through PostgresUserStorage.update_user.                            *)
(***************************************************************************)
InitUpdate ==
  /\ InitLock /\ InitHeartbeat /\ NoDaemon /\ InitInMemory /\ InitStoreVars /\ InitRest
  /\ table = Rows
  /\ calls_left = MaxUpdateCalls

\* The dicts the caller updates a row's name by.
NameUpdates == {<<Entry(<<"n">>, v)>> : v \in UpdateValues}

UpdateNext ==
  \/ \E filters \in UpdateFilters : \E additional \in UpdateAdditional :
       \E updates \in NameUpdates : executor_update(filters, additional, updates)
  \/ \E r \in Rows : \E ts \in UserTs(r) : update_user(r, ts)
  \/ delete_user_returns
  \/ delete_user_raises
  \/ insert_user_returns
  \/ insert_user_raises
  \/ \E d \in TickSteps : tick(d)

SpecUpdate == InitUpdate /\ [][UpdateNext]_vars

(***************************************************************************)
(* One GrpcClient and its server.                                          *)
(***************************************************************************)
InitGrpc ==
  /\ InitLock /\ InitHeartbeat /\ NoDaemon /\ InitInMemory /\ InitStoreVars
  /\ InitGrpcClient /\ InitExecutor /\ InitApp
  /\ table = {}
  /\ server_up \in BOOLEAN
  /\ calls_left = MaxGrpcCalls

GrpcNext ==
  \/ connect
  \/ disconnect
  \/ say_hello
  \/ health_check
  \/ server_toggle

SpecGrpc == InitGrpc /\ [][GrpcNext]_vars

(***************************************************************************)
(* One caller of get_all_raw over a table, for every limit and window.     *)
(***************************************************************************)
InitGetAllRaw ==
  /\ InitLock /\ InitHeartbeat /\ NoDaemon /\ InitInMemory /\ InitStoreVars
  /\ InitGrpcClient /\ server_up = FALSE
  /\ exec_last = NoExec
  /\ pager = PagerIdle
  /\ gar = GarIdle
  /\ InitUpdates /\ InitApp
  /\ table \in SUBSET Rows
  /\ row_ts \in [Rows -> TsValues]
  /\ calls_left = MaxScans

GetAllRawNext ==
  \/ \E field \in {CREATED_TS_FIELD, ID_FIELD} : \E asc \in BOOLEAN :
       \E limit \in 0..(MaxRows + 1) : \E window \in 1..MaxWindow :
         get_all_raw_start(field, asc, limit, window)
  \/ get_all_raw_fetch

SpecGetAllRaw == InitGetAllRaw /\ [][GetAllRawNext]_vars

(***************************************************************************)
(* One caller of cleanup_old_requests over a table of requests.            *)
(***************************************************************************)
InitCleanup ==
  /\ InitLock /\ InitHeartbeat /\ NoDaemon /\ InitInMemory /\ InitStoreVars
  /\ InitGrpcClient /\ server_up = FALSE
  /\ exec_last = NoExec
  /\ pager = PagerIdle
  /\ gar = GarIdle
  /\ InitUpdates /\ InitApp
  /\ table \in SUBSET Rows
  /\ row_ts \in [Rows -> TsValues]
  /\ calls_left = MaxCleanups

CleanupNext ==
  \/ \E keep_count \in 0..MaxRows : cleanup_old_requests(keep_count)
  \/ cleanup_select
  \/ cleanup_raw_query
  \/ cleanup_raw_query_close
  \/ cleanup_return

SpecCleanup == InitCleanup /\ [][CleanupNext]_vars

(***************************************************************************)
(* Each manager derives the keys of names of any digest.                   *)
(***************************************************************************)
InitLockKey ==
  /\ InitLock /\ InitHeartbeat /\ NoDaemon /\ InitInMemory /\ InitStoreVars
  /\ table = {} /\ InitRest
  /\ calls_left = 0

LockKeyNext == \E m \in Managers, u \in Unsigned : lock_key_call(m, u)

SpecLockKey == InitLockKey /\ [][LockKeyNext]_vars

(***************************************************************************)
(* Threads registering users through one PostgresUserStorage.              *)
(***************************************************************************)
InitCreateUser ==
  /\ InitLock /\ InitHeartbeat /\ NoDaemon /\ InitInMemory /\ InitStoreVars
  /\ table = {} /\ InitRest
  /\ calls_left = MaxCreateCalls

CreateUserNext ==
  \E t \in CuThreads :
    \/ \E username \in Usernames, email \in Emails : create_user(t, username, email)
    \/ create_user_check_username(t)
    \/ create_user_check_email(t)
    \/ create_user_insert(t)
    \/ create_user_insert_raises(t)

SpecCreateUser == InitCreateUser /\ [][CreateUserNext]_vars

(***************************************************************************)
(* to_base36 called with the millisecond timestamps of a range around the  *)
(* epoch.                                                                  *)
(***************************************************************************)
InitBase36 ==
  /\ InitLock /\ InitHeartbeat /\ NoDaemon /\ InitInMemory /\ InitStoreVars
  /\ table = {} /\ InitRest
  /\ calls_left = 0

Base36Next ==
  \/ \E n \in Milliseconds : to_base36_call(n)
  \/ to_base36_loop

SpecBase36 == InitBase36 /\ [][Base36Next]_vars

(***************************************************************************)
(* Properties.                                                             *)
(***************************************************************************)
OtherManager(m) == CHOOSE o \in Managers : o # m

Sessions == 1..MaxConns

\* A session of manager m holds key k on the server.
SessionHolds(m, k) == pg_locks[k].cnt > 0 /\ pg_locks[k].owner = m

\* No thread of manager m is inside a call.
Quiet(m) == \A t \in PgThreads : manager_of(t) = m => thr[t].pc = "idle"

\* The step at which thread t's acquire_non_blocking returns True / finds the
\* lock not acquired (and will return False).
ReturnsTrue(t) ==
  /\ thr[t].pc = "try_execute" /\ thr'[t].pc = "idle"
  /\ pg_locks' # pg_locks

ReturnsFalse(t) == thr[t].pc = "try_execute" /\ thr'[t].pc = "not_acquired"

\* C1: two managers A and B, each on its own session, under every interleaving
\* of acquire, acquire_non_blocking and release calls: B.acquire_non_blocking(n)
\* never returns True while A's session holds n, and once A's release(n) has
\* returned (A does not hold n in its caller's view and is in no call) B's
\* acquire_non_blocking(n) returns True, not False.
C1_MutualExclusionAcrossManagers ==
  [][\A t \in {"a1", "b1"} :
       LET m == manager_of(t)
           o == OtherManager(m)
           n == thr[t].lock_name
       IN  /\ ReturnsTrue(t) => ~SessionHolds(o, string_to_lock_key(n))
           /\ ReturnsFalse(t) => ~(n \notin held[o] /\ Quiet(o))]_vars

\* C2: whenever no call is in progress on a manager, its connection is None
\* if and only if its set of tracked lock keys is empty, whatever calls
\* (including calls that raised) came before.
C2_ConnectionClosedIffNoKeys ==
  \A m \in Managers :
    Quiet(m) => (connection[m] = None <=> acquired_lock_keys[m] = {})

\* The connections the pool handed to m that m has not closed.
Unclosed(m) == {c \in Sessions : sess[m][c] \in {"open", "dead"}}

\* C3: at every moment, under every interleaving of the calls of several
\* threads, a manager has at most one connection that it obtained from the pool
\* and has not closed, it is the tracked one, and every advisory lock a session
\* of the manager holds is held by that connection's session.
C3_AtMostOneConnection ==
  \A m \in Managers :
    /\ Cardinality(Unclosed(m)) <= 1
    /\ \A c \in Unclosed(m) : c = connection[m]
    /\ \A k \in Keys : SessionHolds(m, k) => pg_locks[k].sid = connection[m]

\* C3's case: manager A holds a lock on its connection while both of its
\* threads are inside calls.
C3_Witness ==
  /\ \E k \in Keys : SessionHolds("A", k)
  /\ thr["a1"].pc # "idle" /\ thr["a2"].pc # "idle"

\* C4: when an attempt of acquire_non_blocking fails because the tracked
\* connection is closed, the second attempt runs on a fresh connection from the
\* pool (not the one that failed), whether or not other keys are tracked, and
\* there are at most two attempts.
C4_RetryOnFreshConnection ==
  [][\A t \in {"a1", "b1"} :
       /\ (thr[t].pc = "retry_get" /\ thr'[t].pc = "try_execute")
            => /\ thr'[t].connection # thr[t].connection
               /\ sess'[manager_of(t)][thr'[t].connection] = "open"
       /\ thr'[t].attempt <= 2]_vars

\* C7: without the daemon, heartbeat() sends its query only while a key is
\* tracked and a connection is stored, and any two of the queries it sends are
\* at least HeartbeatInterval seconds apart.
C7_HeartbeatRateLimited ==
  \A m \in Managers :
    ~heartbeat_daemon[m] =>
      /\ \A i \in 1..Len(hb_log[m]) : hb_log[m][i].tracked /\ hb_log[m][i].conn # None
      /\ \A i, j \in 1..Len(hb_log[m]) :
           i < j => hb_log[m][j].ts - hb_log[m][i].ts >= HeartbeatInterval

\* C7's case: heartbeat() has sent two queries.
C7_Witness == ~heartbeat_daemon["A"] /\ Len(hb_log["A"]) >= 2

\* C8: a manager constructed with heartbeat_daemon=True never sends a query
\* from heartbeat() and heartbeat() never changes its state; a manager
\* constructed with heartbeat_daemon=False never has a worker, whatever
\* start_heartbeat_daemon / stop_heartbeat_daemon calls are made.
C8_ModesExclusive ==
  \A m \in Managers :
    /\ heartbeat_daemon[m] =>
         hb_log[m] = <<>> /\ last_heartbeat_ts[m] = 0 /\ ~hb_raised[m]
    /\ ~heartbeat_daemon[m] =>
         /\ \A w \in Workers : workers[m][w] = Unstarted
         /\ worker_thread[m] = None /\ ~stop_event[m] /\ ~worker_sent[m]

\* C8's case: heartbeat() was called on a daemon-mode manager that tracks a key
\* on a stored connection.
C8_Witness == heartbeat_daemon["A"] /\ hb_called["A"]

\* C9: a failing heartbeat query never propagates out of heartbeat().
C9_HeartbeatFailureSwallowed == \A m \in Managers : ~hb_raised[m]

\* The step at which thread t's blocking acquire returns (PostgreSQL) and the
\* step at which an in-memory thread's acquire returns.
AcquireReturns(t) == thr[t].pc = "acquire_execute" /\ thr'[t].pc = "idle"

ImAcquireReturns(t) == im[t].pc = "acquire_loop" /\ im'[t].pc = "idle"

PgWaiting(t, n) == thr[t].pc = "acquire_execute" /\ thr[t].lock_name = n

ImWaiting(t, n) == im[t].pc = "acquire_loop" /\ im[t].lock_name = n

ImHeldByOther(t, n) == n \in locks /\ \E u \in ImThreads \ {t} : n \in im_holding[u]

C6_InMemoryMutualExclusion ==
  \A n \in Names :
    /\ Cardinality({t \in ImThreads : n \in im_holding[t]}) <= 1
    /\ n \in locks <=> \E t \in ImThreads : n \in im_holding[t]

\* The wrapper is between attempts, or the call is over.
AttemptOver ==
  st.pc \in {"idle", "attempt", "except_retry", "raised", "get_attempt", "get_results", "get_except"}

\* C10: for insert, bulk_insert, get_all, get_all_raw, count, delete and
\* raw_query, on every attempt of the retry wrapper, the connection obtained
\* from the pool is closed exactly once before the attempt ends -- whether the
\* attempt returns or raises during execute, commit or rollback -- it is never
\* closed twice, and once the call is over as many connections have been
\* closed as were borrowed.
C10_EveryConnectionClosedOnce ==
  /\ \A c \in 1..borrowed : closes[c] <= 1 /\ (c \in pool_open <=> closes[c] = 0)
  /\ pool_open \subseteq {st.conn}
  /\ AttemptOver => pool_open = {} /\ \A c \in 1..borrowed : closes[c] = 1

\* C10's case: the third attempt of a call has just raised during rollback,
\* after each attempt borrowed a connection.
C10_Witness ==
  /\ st.pc = "raised" /\ st.raised_in = "rollback" /\ st.attempts = max_attempts
  /\ borrowed >= max_attempts

\* The call that ended last executed a data-modifying statement.
Modifies(o) ==
  \/ o.op \in {"insert", "delete"}
  \/ o.op = "bulk_insert" /\ o.arg.tag = "objs"
  \/ o.op = "raw_query" /\ o.arg.tag = "dml"

\* C11: when a call that executes a data-modifying statement (insert,
\* bulk_insert, delete, raw_query with an INSERT/UPDATE/DELETE) has returned,
\* its modification is committed -- the table is the table before the call
\* with the statement applied -- and when it has raised, the table is what it
\* was before the call.
C11_CommitOnSuccessRollbackOnRaise ==
  (st.pc = "idle" /\ Modifies(outcome)) =>
    /\ outcome.kind = "returned" => table = Effect(outcome.op, outcome.arg, outcome.before)
    /\ outcome.kind = "raised" => table = outcome.before

\* C12: one call of any operation, get included, executes its query at most
\* max_attempts times and sleeps only between two consecutive attempts (so at
\* most max_attempts - 1 times); a call that returned made no attempt after
\* the successful one, and a call that raised made exactly max_attempts.
C12_AtMostThreeExecutions ==
  /\ st.executions <= max_attempts
  /\ st.sleeps <= max_attempts - 1
  /\ outcome.kind = "returned" =>
       /\ outcome.executions <= max_attempts
       /\ outcome.sleeps = outcome.attempts - 1
  /\ outcome.kind = "raised" =>
       /\ outcome.attempts = max_attempts
       /\ outcome.executions <= max_attempts
       /\ outcome.sleeps = max_attempts - 1

\* C13: a caller-misuse error (delete without usable filters, get matching
\* more than one row) is never retried: while the pending exception is a
\* validation error, no backoff sleep is taken, so it reaches the caller after
\* the attempt that raised it.
C13_ValidationErrorsNotRetried ==
  [][st.raised_in = "validation" => st'.sleeps = st.sleeps]_vars

\* DatabaseStore.delete was given no usable filter: None, {} or only
\* None-valued entries.
DeleteUnfiltered(arg) == arg.tag \in {"no_filters", "none_valued"}

\* C14: a delete that is given no filters always raises and never executes a
\* DELETE statement: DatabaseStore.delete with None, {} or only None-valued
\* filters executes nothing while it runs, ends by raising and leaves the
\* table as it was; StatementExecutor.delete with neither filters nor
\* additional filters raises and leaves the table as it was.
C14_UnfilteredDeleteRaises ==
  /\ (st.op = "delete" /\ DeleteUnfiltered(st.arg)) =>
       /\ st.executions = 0
       /\ table = st.before
       /\ tx \in {{}, table}
  /\ (outcome.op = "delete" /\ DeleteUnfiltered(outcome.arg)) =>
       /\ outcome.kind = "raised"
       /\ outcome.executions = 0
       /\ table = outcome.before
  /\ (exec_last.call = "delete" /\ exec_last.filters.tag = "no_filters"
        /\ exec_last.additional = "-") =>
       /\ exec_last.result = "raised"
       /\ exec_last.after = exec_last.before

\* Both kinds of unfiltered delete have ended on a table that has rows: the
\* executor's, then the store's with only None-valued filters.
C14_Witness ==
  /\ exec_last.call = "delete" /\ exec_last.result = "raised"
  /\ outcome.op = "delete" /\ outcome.arg.tag = "none_valued"
  /\ outcome.kind = "raised" /\ outcome.before # {}

\* The rows of a sequence.
Range(s) == {s[i] : i \in 1..Len(s)}

\* A scan from the start, by a supported field, has returned its last page.
ScanOver ==
  pager.pc = "done" /\ ~pager.resumed /\ ~unsupported(pager.field)

\* C15: a scan of a table of N rows with get_all_raw_paginate, from no token
\* until no token is returned, yields exactly the N rows, each once, for both
\* pagination fields, both directions and rows that share a created_ts
\* millisecond; and it ends, within N calls and one more.
C15_PaginationComplete ==
  /\ ScanOver => /\ Len(pager.got) = Cardinality(table)
                 /\ Range(pager.got) = table
  /\ pager.calls <= Cardinality(table) + 1

\* C16: get_all_raw_paginate with a pagination field other than created_ts
\* and id raises and returns no rows, with or without a token, whatever the
\* number of rows and the limit.
C16_UnsupportedFieldRaises ==
  (pager.pc # "idle" /\ unsupported(pager.field)) =>
    pager.pc = "raised" /\ pager.got = <<>>

\* C17: DatabaseStore.get returns None when no row matches the filters, the
\* row when exactly one matches, and raises when more than one matches: a
\* get that returned did so on at most one matching row and returned exactly
\* the matching rows; on two or more matching rows it only ever raises.
C17_GetNoneOneOrRaise ==
  outcome.op = "get" =>
    LET matching == Matching(outcome.arg, outcome.before)
    IN  /\ outcome.kind = "returned" =>
             /\ Cardinality(matching) <= 1
             /\ outcome.value = matching
        /\ Cardinality(matching) >= 2 => outcome.kind = "raised"

\* get has returned the one row that matches its filter, out of a table that
\* holds other rows too.
C17_Witness ==
  /\ outcome.op = "get" /\ outcome.kind = "returned"
  /\ Cardinality(outcome.value) = 1
  /\ Cardinality(outcome.before) = MaxRows
  /\ calls_left = MaxStoreCalls - 1

\* The leaf a key addresses: its column, and its JSON path without the
\* @append marker.
LeafOf(key) ==
  <<col_of(key),
    IF endswith(json_path_of(key), AtAppend)
      THEN SubSeq(json_path_of(key), 1, Len(json_path_of(key)) - Len(AtAppend))
      ELSE json_path_of(key)>>

\* Two entries of the dict address the same leaf of a JSON column.
LeafConflict(updates) ==
  \E i, j \in 1..Len(updates) :
    /\ i # j
    /\ json_path_of(updates[i].key) # <<>>
    /\ LeafOf(updates[i].key) = LeafOf(updates[j].key)

\* C18: an update whose dict holds conflicting entries for the same leaf JSON
\* path, such as 'm:a.b' and 'm:a.b@append', raises and executes no
\* statement, in whichever order the entries are iterated.
C18_ConflictingUpdatesRaise ==
  (exec_last.call = "update" /\ LeafConflict(exec_last.updates)) =>
    /\ exec_last.result = "raised"
    /\ exec_last.after = exec_last.before

\* An update with filters was given 'm:a.b@append' before 'm:a.b'.
C18_Witness ==
  /\ exec_last.call = "update" /\ exec_last.filters.tag = "filters"
  /\ Len(exec_last.updates) = 2
  /\ exec_last.updates[1].key = <<"m", ":", "a", ".", "b">> \o AtAppend
  /\ exec_last.updates[2].key = <<"m", ":", "a", ".", "b">>
  /\ exec_last.result = "raised"

\* Row r is updated by this step, and has been updated before.
UpdatedAgain(r) ==
  update_count[r] >= 1 /\ update_count'[r] = update_count[r] + 1

\* C19: when a record is updated twice, by StatementExecutor.update or by
\* update_user with any User the caller passes, its last_updated_ts after
\* the second update is no less than it was after the first.
C19_LastUpdatedNeverDecreases ==
  [][\A r \in Rows : UpdatedAgain(r) => last_updated_ts'[r] >= last_updated_ts[r]]_vars

\* C20: GrpcClient.connect() returns False and leaves connected False when
\* the gRPC server is not reachable.
C20_ConnectFalseWhenUnreachable ==
  (grpc_last.call = "connect" /\ ~grpc_last.up) =>
    grpc_last.result = "False" /\ ~client.connected

\* C21: get_all_raw ends, and returns exactly the first min(L, N) of the N
\* matching rows in the requested order, none twice and none skipped across
\* its OFFSET/FETCH windows, for every limit L and window size.
C21_GetAllRawFirstRows ==
  /\ gar.queries <= Cardinality(table) + 1
  /\ gar.pc = "done" =>
       \E sorted \in Orders(table, gar.field, gar.asc) :
         gar.out = SubSeq(sorted, 1, Smaller(gar.limit, Cardinality(table)))

\* C22: building an update statement leaves the caller's updates mapping as
\* it was (the filters and the additional filters are only read).
C22_BuildLeavesUpdatesUnchanged ==
  exec_last.call = "update" => exec_last.updates_after = exec_last.updates

\* C23: when cleanup_old_requests(keep_count) has returned on a table of N
\* requests, the table holds exactly min(N, keep_count) of them, none older
\* than a removed one, and the returned number is the number of rows removed.
C23_CleanupKeepsMostRecent ==
  cl.pc = "returned" =>
    /\ table \subseteq cl.before
    /\ Cardinality(table) = Smaller(Cardinality(cl.before), cl.keep_count)
    /\ \A kept \in table : \A gone \in cl.before \ table :
         created_ts_of(kept) >= created_ts_of(gone)
    /\ cl.returned = Cardinality(cl.before) - Cardinality(table)

\* C24: with heartbeat_daemon=True and start_heartbeat_daemon / stop_heartbeat_daemon
\* called from several threads in any interleaving, at most one heartbeat worker
\* thread of a manager is running at any time.
C24_AtMostOneWorker ==
  \A m \in Managers : Cardinality({w \in Workers : is_alive(m, w)}) <= 1

\* C25: the lock key is a function of the digest prefix u alone: it is u when
\* u < 2^(KeyBits-1) and u - 2^KeyBits otherwise (KeyBits standing for 64), so it
\* lies in [-2^(KeyBits-1), 2^(KeyBits-1) - 1] and is congruent to u modulo 2^KeyBits.
C25_LockKeySigned ==
  /\ \A m \in Managers :
       lock_key[m].called =>
         LET u == lock_key[m].unsigned
             k == lock_key[m].key
         IN  /\ k = IF u < 2 ^ (KeyBits - 1) THEN u ELSE u - 2 ^ KeyBits
             /\ k >= 0 - 2 ^ (KeyBits - 1) /\ k <= 2 ^ (KeyBits - 1) - 1
             /\ (k - u) % (2 ^ KeyBits) = 0
  /\ \A m, o \in Managers :
       (lock_key[m].called /\ lock_key[o].called /\ lock_key[m].unsigned = lock_key[o].unsigned)
         => lock_key[m].key = lock_key[o].key

\* One manager has derived the key of a digest of 2^(KeyBits-1) or more, which
\* wraps to a negative key, the other the key of a smaller digest.
C25_WrappedKey ==
  /\ lock_key["A"].called /\ lock_key["A"].unsigned >= 2 ^ (KeyBits - 1)
  /\ lock_key["A"].key < 0
  /\ lock_key["B"].called /\ lock_key["B"].unsigned < 2 ^ (KeyBits - 1)

\* A thread that holds a connection from _get_connection_for_lock and has not
\* yet executed its statement on it.
Executing(t) == thr[t].pc \in {"acquire_execute", "try_execute", "release_execute"}

\* C26: while a thread of a shared manager is inside acquire, acquire_non_blocking
\* or release, between obtaining its connection and executing its statement, no
\* other thread's call has closed that connection.
C26_ConnectionNotClosedUnderCaller ==
  \A t \in PgThreads :
    Executing(t) => sess[manager_of(t)][thr[t].connection] # "closed"

\* C27: whenever no call is in progress on a manager, every key in
\* _acquired_lock_keys is the key of an advisory lock that the session of the
\* manager's connection holds, calls that have raised included.
C27_TrackedKeysAreHeld ==
  \A m \in Managers :
    Quiet(m) => \A k \in acquired_lock_keys[m] : HeldBy(k, m, connection[m])

\* C28: after any interleaving of create_user calls, no two records of the users
\* table have the same username or the same email, and of two calls with the same
\* username at most one has returned a User.
C28_UniqueUsers ==
  /\ \A u1, u2 \in users :
       (u1.username = u2.username \/ u1.email = u2.email) => u1 = u2
  /\ \A t1, t2 \in CuThreads :
       (/\ t1 # t2
        /\ cu[t1].pc = "returned" /\ cu[t2].pc = "returned"
        /\ cu[t1].username = cu[t2].username)
         => ~(cu[t1].result = "User" /\ cu[t2].result = "User")

\* C29: update_user is atomic with respect to failure: every user that existed
\* before a call (all of Rows, in SpecUpdate, where nothing else deletes a row)
\* still has a record once update_user has returned, the insert having failed
\* or not.
C29_UpdateUserKeepsRecord ==
  uu.pc = "idle" => table = Rows

\* The number of base-36 digits of the largest magnitude in Milliseconds.
DigitsOfMaxMs == Len(to_base36(MaxMs))

\* C30: for every millisecond timestamp n of a range around the epoch, negative
\* ones included, to_base36(n) terminates -- its loop runs at most once per
\* base-36 digit of the magnitude -- and from_base36 of what it returns is n.
C30_Base36RoundTrip ==
  /\ Len(b36.result) <= DigitsOfMaxMs
  /\ b36.pc = "returned" => from_base36(b36.result) = b36.input

==============================================================================
